---- MODULE Spec2Model ----
(***************************************************************************)
(* The two-pass JSON staging engine of ldp (src/src/stage.cpp): the SAX    *)
(* handler that rebuilds one record at a time, the statistics collector    *)
(* and canonicaliser processJSONRecord, the tuple writer and insert        *)
(* buffer, and the orchestrator stageTable.                                 *)
(*                                                                         *)
(* Representation.  A JSON value is a record [t, v]; an object keeps its   *)
(* members as a sequence (rapidjson keeps member order and duplicate       *)
(* names).  A member name is a sequence of bytes.  A string value is a     *)
(* sequence of runs [b, n] (byte b repeated n times), so that strings of   *)
(* millions of characters have a length without being spelled out.  An     *)
(* integer is [v, k]: the number v * 10^(9k), which reaches the 64-bit     *)
(* range with small v.  A double is counted in units of 10^-7.             *)
(***************************************************************************)
EXTENDS Integers, Sequences, FiniteSets, TLC

VARIABLES
    \* ---- input of one stageTable call (fixed after Init) ----
    countFile,        \* "missing" or "present": <table>_count.txt
    declaredCount,    \* the number written in the count file
    pageFiles,        \* page index (0-based, stored at index+1) -> file name
    testFile,         \* the name of the <table>_test.json file
    loadFromDir,      \* opt.load_from_dir != ""
    moduleName,       \* table.moduleName
    dbType,           \* dbt->type_string()
    \* ---- stageTable ----
    pc,               \* position of stageTable
    pass,             \* the loop variable pass
    page,             \* the loop variable page
    pageCount,        \* result of readPageCount
    stats,            \* map<string,Counts>
    columns,          \* table->columns
    sqlLog,           \* the statements passed to conn->exec, in order
    \* ---- the JSONHandler of the current stagePage call ----
    events,           \* parser events not yet delivered
    inTest,           \* the current stagePage call reads the test file
    level, active, record, recordCount, totalRecordCount, insertBuffer,
    \* ---- observation (history) ----
    parseLog,         \* [pass, file] of every stagePage call, in order
    subParsed,        \* outcome of every sub-parse of the current page
    failedAt,         \* Len(parseLog) at the first failed parse, else 0
    arrayNo,          \* arrays opened at level 1 in the current page
    sqlMark,          \* Len(sqlLog) when the last of them was opened
    statsMark,        \* stats when the current page was opened
    \* ---- canonicalisation harness ----
    cIn,              \* the record handed to processJSONRecord
    cOut, cOut2,      \* its result, and the result of a second application
    cAlt,             \* the result for the same record, its members reordered
    cPhase,
    \* ---- statistics harness ----
    sRecs,            \* the records pass 1 has counted, in order
    sAlt,             \* a second pass 1 over the same records, in another order
    \* ---- tuple harness ----
    tDoc,             \* the document handed to writeTuple
    \* ---- runLoad (src/src/main.cpp), the caller of stageTable ----
    loadStep,         \* position of runLoad in the body of its table loop
    tableNo,          \* the table of the current iteration (1-based)
    connLog,          \* per table: what was done on its connection, in order
    preLog            \* what runPreloadTests did on its connection, in order

stageVars == <<pc, pass, page, pageCount, stats, columns, sqlLog>>
inputVars == <<countFile, declaredCount, pageFiles, testFile, loadFromDir,
               moduleName, dbType>>
handlerVars == <<events, inTest, level, active, record, recordCount,
                 totalRecordCount, insertBuffer>>
histVars == <<parseLog, subParsed, failedAt, arrayNo, sqlMark, statsMark>>
canonVars == <<cIn, cOut, cOut2, cAlt, cPhase>>
statVars == <<sRecs, sAlt>>
loadVars == <<loadStep, tableNo, connLog, preLog>>
harnessVars == <<canonVars, statVars, tDoc, loadVars>>
vars == <<inputVars, stageVars, handlerVars, histVars, harnessVars>>

-----------------------------------------------------------------------------
(* JSON values *)

JNull == [t |-> "null", v |-> 0]
JBool(b) == [t |-> "bool", v |-> b]
JInt(n) == [t |-> "int", v |-> n, k |-> 0]
JBig(n) == [t |-> "int", v |-> n, k |-> 1]
JFloat(m) == [t |-> "float", v |-> m]
JStr(s) == [t |-> "str", v |-> s]
JArr(es) == [t |-> "arr", v |-> es]
JObj(ms) == [t |-> "obj", v |-> ms]
Mem(n, x) == [name |-> n, value |-> x]

\* A string of n copies of byte b; the concatenation of strings is \o.
Rep(b, n) == << [b |-> b, n |-> n] >>

RECURSIVE StrLen(_)
StrLen(s) == IF s = << >> THEN 0 ELSE Head(s).n + StrLen(Tail(s))

\* The bytes of a (short) string, one by one.
RECURSIVE Expand(_)
Expand(s) ==
    IF s = << >> THEN << >>
    ELSE [i \in 1..Head(s).n |-> Head(s).b] \o Expand(Tail(s))

\* A const char* stops at the first NUL byte.
RECURSIVE CStr(_)
CStr(s) ==
    IF s = << >> \/ Head(s).b = 0 THEN << >>
    ELSE <<Head(s)>> \o CStr(Tail(s))

IdName == <<105, 100>>

-----------------------------------------------------------------------------
(* NameComparator and std::sort *)

\* strcmp on byte sequences: negative, zero or positive.
RECURSIVE strcmp(_, _)
strcmp(s1, s2) ==
    IF s1 = << >> /\ s2 = << >> THEN 0
    ELSE IF s1 = << >> THEN -1
    ELSE IF s2 = << >> THEN 1
    ELSE IF Head(s1) < Head(s2) THEN -1
    ELSE IF Head(s1) > Head(s2) THEN 1
    ELSE strcmp(Tail(s1), Tail(s2))

NameComparator(lhs, rhs) ==
    IF lhs.name = IdName THEN TRUE
    ELSE IF rhs.name = IdName THEN FALSE
    ELSE strcmp(lhs.name, rhs.name) < 0

\* The rearrangements of a sequence.
Perms(ms) ==
    { [i \in 1..Len(ms) |-> ms[f[i]]] : f \in Permutations(1..Len(ms)) }

\* std::sort requires a strict weak ordering.  Two members that each compare
\* less than the other break it: the call is then undefined.
SortUndefined(ms) ==
    \E i, j \in 1..Len(ms) :
        i # j /\ NameComparator(ms[i], ms[j]) /\ NameComparator(ms[j], ms[i])

SortedBy(ms) ==
    \A i, j \in 1..Len(ms) : i < j => ~NameComparator(ms[j], ms[i])

\* The results std::sort may leave in the range: any ordered rearrangement
\* (std::sort is not stable: members of equal name may end in any order);
\* any rearrangement at all when the call is undefined.
SortOutcomes(ms) ==
    LET RECURSIVE Ordered(_)
        \* the ordered rearrangements of the members at the indices in I:
        \* a member that no other one precedes, then the rest
        Ordered(I) ==
            IF I = {} THEN { << >> }
            ELSE UNION { { <<ms[i]>> \o t : t \in Ordered(I \ {i}) } :
                         i \in { k \in I : \A j \in I \ {k} :
                                     ~NameComparator(ms[j], ms[k]) } }
    IN  IF SortUndefined(ms) THEN Perms(ms) ELSE Ordered(1..Len(ms))

-----------------------------------------------------------------------------
(* processJSONRecord: statistics *)

ZeroCounts ==
    [null |-> 0, boolean |-> 0, number |-> 0, integer |-> 0, floating |-> 0,
     string |-> 0, uuid |-> 0, dateTime |-> 0]

\* The first n bytes of a string (all of it when it is shorter).
RECURSIVE Take(_, _)
Take(s, n) ==
    IF n <= 0 \/ s = << >> THEN << >>
    ELSE IF Head(s).n >= n THEN [i \in 1..n |-> Head(s).b]
    ELSE [i \in 1..Head(s).n |-> Head(s).b] \o Take(Tail(s), n - Head(s).n)

IsDigit(b) == b \in 48..57
IsHex(b) == b \in 48..57 \/ b \in 65..70 \/ b \in 97..102

\* regex_search(str, "^\d{4}-\d{2}-\d{2}T\d{2}:\d{2}:\d{2}")
looksLikeDateTime(str) ==
    LET e == Take(CStr(str), 19)
    IN  /\ Len(e) = 19
        /\ \A i \in 1..19 :
              IF i \in {5, 8} THEN e[i] = 45
              ELSE IF i = 11 THEN e[i] = 84
              ELSE IF i \in {14, 17} THEN e[i] = 58
              ELSE IsDigit(e[i])

\* The canonical 8-4-4-4-12 hexadecimal grouping.
isUUID(str) ==
    LET c == CStr(str)
        e == Take(c, 36)
    IN  /\ StrLen(c) = 36
        /\ \A i \in 1..36 :
              IF i \in {9, 14, 19, 24} THEN e[i] = 45 ELSE IsHex(e[i])

\* A slip in the collector: an array or an object at depth 1 creates the
\* entry of its field.
CountNodeEveryType(st, name, node) ==
    LET c == IF name \in DOMAIN st THEN st[name] ELSE ZeroCounts
        c2 == CASE node.t = "null" -> [c EXCEPT !.null = @ + 1]
                [] node.t = "bool" -> [c EXCEPT !.boolean = @ + 1]
                [] node.t = "int" ->
                       [c EXCEPT !.number = @ + 1, !.integer = @ + 1]
                [] node.t = "float" ->
                       [c EXCEPT !.number = @ + 1, !.floating = @ + 1]
                [] node.t = "str" ->
                       [c EXCEPT !.string = @ + 1,
                                 !.uuid = @ + (IF isUUID(node.v) THEN 1 ELSE 0),
                                 !.dateTime = @ + (IF looksLikeDateTime(node.v)
                                                   THEN 1 ELSE 0)]
                [] OTHER -> c
    IN  [n \in DOMAIN st \cup {name} |-> IF n = name THEN c2 ELSE st[n]]

\* (*stats)[name].<bucket>++ for one node at depth 1.  std::map creates the
\* entry on first use; an array or an object at depth 1 touches no entry.
CountNode(st, name, node) ==
    LET c == IF name \in DOMAIN st THEN st[name] ELSE ZeroCounts
        c2 == CASE node.t = "null" -> [c EXCEPT !.null = @ + 1]
                [] node.t = "bool" -> [c EXCEPT !.boolean = @ + 1]
                [] node.t = "int" ->
                       [c EXCEPT !.number = @ + 1, !.integer = @ + 1]
                [] node.t = "float" ->
                       [c EXCEPT !.number = @ + 1, !.floating = @ + 1]
                [] node.t = "str" ->
                       [c EXCEPT !.string = @ + 1,
                                 !.uuid = @ + (IF isUUID(node.v) THEN 1 ELSE 0),
                                 !.dateTime = @ + (IF looksLikeDateTime(node.v)
                                                   THEN 1 ELSE 0)]
                [] OTHER -> c
    IN  IF node.t \in {"arr", "obj"} THEN st
        ELSE [n \in DOMAIN st \cup {name} |-> IF n = name THEN c2 ELSE st[n]]

RECURSIVE CountMembers(_, _)
CountMembers(st, ms) ==
    IF ms = << >> THEN st
    ELSE CountMembers(CountNode(st, Head(ms).name, Head(ms).value), Tail(ms))

\* A slip in the collector: a field that is already in the map keeps the
\* counts it has.
StatsAfterFirstOnly(st, doc) ==
    IF doc.t = "obj"
    THEN LET c == CountMembers(st, doc.v)
         IN  [n \in DOMAIN c |-> IF n \in DOMAIN st THEN st[n] ELSE c[n]]
    ELSE st

\* The statistics after processJSONRecord(collectStats = true) on a parsed
\* record: only the members of the record itself are at depth 1.  (The
\* handler's documents are objects, or null after a failed sub-parse.)
StatsAfter(st, doc) ==
    IF doc.t = "obj" THEN CountMembers(st, doc.v) ELSE st

-----------------------------------------------------------------------------
(* processJSONRecord: canonical member order *)

\* All sequences that take their i-th element from the i-th set.
RECURSIVE SeqChoices(_)
SeqChoices(ss) ==
    IF ss = << >> THEN { << >> }
    ELSE { <<h>> \o t : h \in Head(ss), t \in SeqChoices(Tail(ss)) }

\* The documents processJSONRecord may leave behind: every object sorted
\* (line 109) before its members are visited, arrays visited in place.
\* anonymizeTable is false at both call sites, so no value is rewritten.
RECURSIVE processJSONRecord(_)
processJSONRecord(node) ==
    CASE node.t = "arr" ->
           { JArr(es) :
               es \in SeqChoices([i \in 1..Len(node.v) |->
                                     processJSONRecord(node.v[i])]) }
      [] node.t = "obj" ->
           UNION { { JObj([i \in 1..Len(p) |-> Mem(p[i].name, vs[i])]) :
                       vs \in SeqChoices([i \in 1..Len(p) |->
                                            processJSONRecord(p[i].value)]) } :
                   p \in SortOutcomes(node.v) }
      [] OTHER -> {node}

\* Some std::sort call of processJSONRecord(node) is undefined.
RECURSIVE HasUndefinedSort(_)
HasUndefinedSort(node) ==
    CASE node.t = "arr" ->
           \E i \in 1..Len(node.v) : HasUndefinedSort(node.v[i])
      [] node.t = "obj" ->
           \/ SortUndefined(node.v)
           \/ \E i \in 1..Len(node.v) : HasUndefinedSort(node.v[i].value)
      [] OTHER -> FALSE

-----------------------------------------------------------------------------
(* The parser events of a page file (rapidjson's Reader) *)

Ev(e, x) == [e |-> e, x |-> x]

\* The handler method the Reader calls for an integer: Uint for a value
\* that is not negative and fits 32 bits, Int for a negative one that fits,
\* Uint64 and Int64 beyond.  (k = 1: the value is v * 10^9.)
IntEvent(n) ==
    IF n.k = 0 THEN (IF n.v < 0 THEN "Int" ELSE "Uint")
    ELSE IF n.v \in 0..4 THEN "Uint"
    ELSE IF n.v \in {-1, -2} THEN "Int"
    ELSE IF n.v < 0 THEN "Int64" ELSE "Uint64"

RECURSIVE Events(_)
RECURSIVE MemberEvents(_)
RECURSIVE ElementEvents(_)
Events(x) ==
    CASE x.t = "obj" ->
           <<Ev("StartObject", 0)>> \o MemberEvents(x.v)
               \o <<Ev("EndObject", 0)>>
      [] x.t = "arr" ->
           <<Ev("StartArray", 0)>> \o ElementEvents(x.v)
               \o <<Ev("EndArray", 0)>>
      [] x.t = "str" -> <<Ev("String", x.v)>>
      [] x.t = "int" -> <<Ev(IntEvent(x), x)>>
      [] x.t = "float" -> <<Ev("Double", x)>>
      [] x.t = "bool" -> <<Ev("Bool", x.v)>>
      [] OTHER -> <<Ev("Null", 0)>>
MemberEvents(ms) ==
    IF ms = << >> THEN << >>
    ELSE <<Ev("Key", Head(ms).name)>> \o Events(Head(ms).value)
             \o MemberEvents(Tail(ms))
ElementEvents(es) ==
    IF es = << >> THEN << >>
    ELSE Events(Head(es)) \o ElementEvents(Tail(es))

\* A page file: the events the Reader delivers, and whether the parse then
\* ends without error.  A malformed file delivers the events that precede
\* the error.
WellFormed(doc) ==
    [exists |-> TRUE, ok |-> TRUE, ev |-> Events(doc), doc |-> doc]
Malformed(doc, cut) ==
    [exists |-> TRUE, ok |-> FALSE, ev |-> SubSeq(Events(doc), 1, cut),
     doc |-> doc]
NoFile == [exists |-> FALSE, ok |-> FALSE, ev |-> << >>, doc |-> JNull]

-----------------------------------------------------------------------------
(* The text of the record being rebuilt, as a sequence of tokens *)

Tok(k, x) == [k |-> k, x |-> x]
LBrace == Tok("{", 0)
RBrace == Tok("}", 0)
LBracket == Tok("[", 0)
RBracket == Tok("]", 0)
Comma == Tok(",", 0)

HexDigit(d) == IF d < 10 THEN 48 + d ELSE 55 + d

\* What encodeJSON appends for one byte.  isprint is false outside 32..126
\* (the "C" locale; for a byte >= 0x80 the char is negative).
EncodeByte(c) ==
    CASE c = 34 -> <<92, 34>>
      [] c = 92 -> <<92, 92>>
      [] c = 8 -> <<92, 98>>
      [] c = 12 -> <<92, 102>>
      [] c = 10 -> <<92, 110>>
      [] c = 13 -> <<92, 114>>
      [] c = 9 -> <<92, 116>>
      [] OTHER ->
           IF c \in 32..126 THEN <<c>>
           ELSE <<92, 117, 48, 48, HexDigit(c \div 16), HexDigit(c % 16)>>

\* encodeJSON on a const char*: a run of n equal bytes becomes a run of n
\* equal escape units.
encodeJSON(str) ==
    LET c == CStr(str)
    IN  [i \in 1..Len(c) |-> [u |-> EncodeByte(c[i].b), n |-> c[i].n]]

\* to_string(double) prints six decimals ("%f"); read back, the value is the
\* double rounded to 10^-6.  (Values are in units of 10^-7.)
RoundF(m) ==
    IF m >= 0 THEN ((m + 5) \div 10) * 10 ELSE -(((-m + 5) \div 10) * 10)

-----------------------------------------------------------------------------
(* The sub-parse of the rebuilt text: Document::ParseInsitu<pflags> *)

Fail == [ok |-> FALSE, val |-> JNull, next |-> 0]
Got(val, next) == [ok |-> TRUE, val |-> val, next |-> next]

HexVal(b) == IF b \in 48..57 THEN b - 48
             ELSE IF b \in 65..70 THEN b - 55 ELSE b - 87

\* The bytes of a JSON string body read up to the closing quote: the name
\* as the parser decodes it, or failure.  A raw quote closes the string
\* early (the text that follows cannot be the colon), a raw control
\* character is an error, a backslash starts an escape.
RECURSIVE LexBody(_, _)
LexBody(bs, acc) ==
    IF bs = << >> THEN [ok |-> TRUE, s |-> acc]
    ELSE LET c == Head(bs) IN
         IF c = 34 \/ c < 32 THEN [ok |-> FALSE, s |-> << >>]
         ELSE IF c # 92 THEN LexBody(Tail(bs), Append(acc, c))
         ELSE IF Len(bs) < 2 THEN [ok |-> FALSE, s |-> << >>]
         ELSE LET d == bs[2] IN
              CASE d \in {34, 92, 47} -> LexBody(SubSeq(bs, 3, Len(bs)), Append(acc, d))
                [] d = 98 -> LexBody(SubSeq(bs, 3, Len(bs)), Append(acc, 8))
                [] d = 102 -> LexBody(SubSeq(bs, 3, Len(bs)), Append(acc, 12))
                [] d = 110 -> LexBody(SubSeq(bs, 3, Len(bs)), Append(acc, 10))
                [] d = 114 -> LexBody(SubSeq(bs, 3, Len(bs)), Append(acc, 13))
                [] d = 116 -> LexBody(SubSeq(bs, 3, Len(bs)), Append(acc, 9))
                [] d = 117 /\ Len(bs) >= 6
                       /\ \A i \in 3..6 : IsHex(bs[i]) ->
                     LET cp == 4096 * HexVal(bs[3]) + 256 * HexVal(bs[4])
                                 + 16 * HexVal(bs[5]) + HexVal(bs[6])
                         utf8 == IF cp < 128 THEN <<cp>>
                                 ELSE IF cp < 2048
                                 THEN <<192 + (cp \div 64), 128 + (cp % 64)>>
                                 ELSE <<224 + (cp \div 4096),
                                        128 + ((cp \div 64) % 64),
                                        128 + (cp % 64)>>
                     IN  LexBody(SubSeq(bs, 7, Len(bs)), acc \o utf8)
                [] OTHER -> [ok |-> FALSE, s |-> << >>]

\* A string token read back: each escape unit decodes to its bytes.
RECURSIVE DecodeRuns(_)
DecodeRuns(rs) ==
    IF rs = << >> THEN << >>
    ELSE LET d == LexBody(Head(rs).u, << >>).s
             one == [i \in 1..Len(d) |-> [b |-> d[i], n |-> 1]]
             rest == DecodeRuns(Tail(rs))
         IN  IF Len(d) = 1 THEN <<[b |-> d[1], n |-> Head(rs).n]>> \o rest
             ELSE IF Head(rs).n = 1 THEN one \o rest
             ELSE one \o DecodeRuns(<<[u |-> Head(rs).u, n |-> Head(rs).n - 1]>>
                                       \o Tail(rs))

\* A number token read back.
ReadNumber(x) == IF x.t = "float" THEN JFloat(RoundF(x.v)) ELSE x

RECURSIVE ParseValue(_, _)
RECURSIVE ParseMembers(_, _, _)
RECURSIVE ParseElements(_, _, _)
ParseValue(toks, i) ==
    IF i > Len(toks) THEN Fail
    ELSE LET tk == toks[i] IN
         CASE tk.k = "{" -> ParseMembers(toks, i + 1, << >>)
           [] tk.k = "[" -> ParseElements(toks, i + 1, << >>)
           [] tk.k = "str" -> Got(JStr(DecodeRuns(tk.x)), i + 1)
           [] tk.k = "num" -> Got(ReadNumber(tk.x), i + 1)
           [] tk.k = "true" -> Got(JBool(TRUE), i + 1)
           [] tk.k = "false" -> Got(JBool(FALSE), i + 1)
           [] tk.k = "null" -> Got(JNull, i + 1)
           [] OTHER -> Fail
\* At the start of an object or after a comma: a name, or (trailing commas
\* are allowed) the closing brace.
ParseMembers(toks, i, acc) ==
    IF i > Len(toks) THEN Fail
    ELSE IF toks[i].k = "}" THEN Got(JObj(acc), i + 1)
    ELSE IF toks[i].k # "key" THEN Fail
    ELSE LET nm == LexBody(toks[i].x, << >>)
             r == ParseValue(toks, i + 1)
         IN  IF ~nm.ok \/ ~r.ok \/ r.next > Len(toks) THEN Fail
             ELSE LET acc2 == Append(acc, Mem(nm.s, r.val)) IN
                  IF toks[r.next].k = "," THEN ParseMembers(toks, r.next + 1, acc2)
                  ELSE IF toks[r.next].k = "}" THEN Got(JObj(acc2), r.next + 1)
                  ELSE Fail
ParseElements(toks, i, acc) ==
    IF i > Len(toks) THEN Fail
    ELSE IF toks[i].k = "]" THEN Got(JArr(acc), i + 1)
    ELSE LET r == ParseValue(toks, i) IN
         IF ~r.ok \/ r.next > Len(toks) THEN Fail
         ELSE LET acc2 == Append(acc, r.val) IN
              IF toks[r.next].k = "," THEN ParseElements(toks, r.next + 1, acc2)
              ELSE IF toks[r.next].k = "]" THEN Got(JArr(acc2), r.next + 1)
              ELSE Fail

\* doc.ParseInsitu<pflags>(buffer): one value and nothing after it.  After
\* an error the Document is left a null value.
ParseInsitu(toks) ==
    LET r == ParseValue(toks, 1)
    IN  IF r.ok /\ r.next = Len(toks) + 1 THEN [ok |-> TRUE, doc |-> r.val]
        ELSE [ok |-> FALSE, doc |-> JNull]

-----------------------------------------------------------------------------
(* SQL literals and writeTuple *)

Lit(k, x, len) == [k |-> k, len |-> len, x |-> x]
NullLit == Lit("NULL", 0, 4)
\* What a rapidjson accessor returns when its precondition (IsString, IsInt,
\* IsBool, ...) does not hold and assertions are compiled out.
UndefLit == Lit("undefined", 0, 0)

RECURSIVE DigitsLen(_)
DigitsLen(n) == IF n < 10 THEN 1 ELSE 1 + DigitsLen(n \div 10)

Abs(n) == IF n < 0 THEN -n ELSE n

\* Length of to_string of an integer.
IntTextLen(x) ==
    (IF x.v < 0 THEN 1 ELSE 0) + DigitsLen(Abs(x.v))
        + (IF x.k = 1 /\ x.v # 0 THEN 9 ELSE 0)

\* Length of to_string(double): "%f", six decimals.
DoubleTextLen(x) ==
    IF x.t = "int" THEN IntTextLen(x) + 7
    ELSE (IF x.v < 0 THEN 1 ELSE 0)
             + DigitsLen(Abs(RoundF(x.v)) \div 10000000) + 7

\* Length of dbt.encode_string_const(str): the text between quotes, the
\* quote character and the backslash doubled.
encode_string_const_len(s) ==
    LET RECURSIVE body(_)
        body(r) == IF r = << >> THEN 0
                   ELSE Head(r).n * (IF Head(r).b \in {39, 92} THEN 2 ELSE 1)
                            + body(Tail(r))
    IN  2 + body(CStr(s))

\* Length of one byte of a name or string in the text rapidjson's Writer
\* produces, once that text went through encode_string_const.
DataByteLen(b) ==
    CASE b = 92 -> 4
      [] b = 34 -> 3
      [] b \in {8, 9, 10, 12, 13} -> 3
      [] b < 32 -> 7
      [] b = 39 -> 2
      [] OTHER -> 1

RECURSIVE DataBytesLen(_)
DataBytesLen(bs) ==
    IF bs = << >> THEN 0 ELSE DataByteLen(Head(bs)) + DataBytesLen(Tail(bs))

RECURSIVE DataRunsLen(_)
DataRunsLen(rs) ==
    IF rs = << >> THEN 0
    ELSE Head(rs).n * DataByteLen(Head(rs).b) + DataRunsLen(Tail(rs))

\* Shortest decimal text of a double (the Writer's), approximated by its
\* integer part, the point and the significant decimals.
RECURSIVE FracDigits(_, _)
FracDigits(f, d) ==
    IF d <= 1 \/ f % 10 # 0 THEN d ELSE FracDigits(f \div 10, d - 1)

WriterDoubleLen(m) ==
    (IF m < 0 THEN 1 ELSE 0) + DigitsLen(Abs(m) \div 10000000) + 1
        + FracDigits(Abs(m) % 10000000, 7)

\* Length of the document written by PrettyWriter (pretty = TRUE: four
\* spaces of indent per level, one member or element per line) or by Writer
\* (pretty = FALSE), once encoded as a string constant, without the quotes.
RECURSIVE DataLen(_, _, _)
DataLen(node, depth, pretty) ==
    LET brk(d) == IF pretty THEN 1 + 4 * d ELSE 0
        RECURSIVE items(_, _)
        items(xs, first) ==
            IF xs = << >> THEN 0
            ELSE (IF first THEN 0 ELSE 1) + brk(depth + 1)
                   + (IF node.t = "obj"
                      THEN 2 + DataBytesLen(Head(xs).name)
                             + (IF pretty THEN 2 ELSE 1)
                             + DataLen(Head(xs).value, depth + 1, pretty)
                      ELSE DataLen(Head(xs), depth + 1, pretty))
                   + items(Tail(xs), FALSE)
    IN  CASE node.t \in {"obj", "arr"} ->
               IF node.v = << >> THEN 2
               ELSE 1 + items(node.v, TRUE) + brk(depth) + 1
          [] node.t = "str" -> 2 + DataRunsLen(node.v)
          [] node.t = "int" -> IntTextLen(node)
          [] node.t = "float" -> WriterDoubleLen(node.v)
          [] node.t = "bool" -> IF node.v THEN 4 ELSE 5
          [] OTHER -> 4

MaxStringLen == 65535

\* A slip in writeTuple: the compact text is not tried.
DataLitPrettyOnly(doc) ==
    LET pretty == 2 + DataLen(doc, 0, TRUE)
    IN  IF pretty <= MaxStringLen THEN Lit("pretty", doc, pretty) ELSE NullLit

\* Lines 279-300: the "data" value of the tuple.
DataLit(doc) ==
    LET pretty == 2 + DataLen(doc, 0, TRUE)
        compact == 2 + DataLen(doc, 0, FALSE)
    IN  IF pretty <= MaxStringLen THEN Lit("pretty", doc, pretty)
        ELSE IF compact <= MaxStringLen THEN Lit("compact", doc, compact)
        ELSE NullLit

\* First member of that name (FindMember), 0 when there is none.
MemberIndex(doc, name) ==
    IF doc.t = "obj" /\ \E i \in 1..Len(doc.v) : doc.v[i].name = name
    THEN CHOOSE i \in 1..Len(doc.v) :
             /\ doc.v[i].name = name
             /\ \A j \in 1..(i - 1) : doc.v[j].name # name
    ELSE 0

\* GetInt() asserts IsInt(): an integer that fits a signed 32-bit int.
IsInt32(x) == x.t = "int" /\ (x.k = 0 \/ x.v \in -2..2)

\* d > 10000000000.0 (line 247).
ExceedsNumeric(x) == x.t = "int" /\ x.k = 1 /\ x.v > 10

\* The accessor the column type calls is defined for this value.
AccessorDefined(columnType, x) ==
    CASE columnType = "bigint" -> IsInt32(x)
      [] columnType = "boolean" -> x.t = "bool"
      [] columnType = "numeric" -> x.t \in {"int", "float"}
      [] OTHER -> x.t = "str"

\* A slip in writeTuple: a null in a numeric column is written as 0.
ColumnLitNullByType(column, doc) ==
    LET i == MemberIndex(doc, column.sourceColumnName)
        x == doc.v[i].value
    IN  IF i = 0 THEN NullLit
        ELSE IF x.t = "null"
        THEN (IF column.columnType = "numeric" THEN Lit("num", JInt(0), 1)
              ELSE NullLit)
        ELSE IF ~AccessorDefined(column.columnType, x) THEN UndefLit
        ELSE CASE column.columnType = "bigint" -> Lit("int", x, IntTextLen(x))
               [] column.columnType = "boolean" ->
                    Lit("bool", x.v, IF x.v THEN 4 ELSE 5)
               [] column.columnType = "numeric" ->
                    IF ExceedsNumeric(x) THEN Lit("num", JInt(0), 1)
                    ELSE Lit("num", x, DoubleTextLen(x))
               [] OTHER ->
                    IF encode_string_const_len(x.v) >= MaxStringLen THEN NullLit
                    ELSE Lit("str", CStr(x.v), encode_string_const_len(x.v))

\* A slip in writeTuple: a literal of exactly 65,535 characters is kept.
ColumnLitOverLimit(column, doc) ==
    LET i == MemberIndex(doc, column.sourceColumnName)
        x == doc.v[i].value
    IN  IF i = 0 THEN NullLit
        ELSE IF x.t = "null" THEN NullLit
        ELSE IF ~AccessorDefined(column.columnType, x) THEN UndefLit
        ELSE CASE column.columnType = "bigint" -> Lit("int", x, IntTextLen(x))
               [] column.columnType = "boolean" ->
                    Lit("bool", x.v, IF x.v THEN 4 ELSE 5)
               [] column.columnType = "numeric" ->
                    IF ExceedsNumeric(x) THEN Lit("num", JInt(0), 1)
                    ELSE Lit("num", x, DoubleTextLen(x))
               [] OTHER ->
                    IF encode_string_const_len(x.v) > MaxStringLen THEN NullLit
                    ELSE Lit("str", CStr(x.v), encode_string_const_len(x.v))

\* Lines 224-277: the value written for one column other than id.
ColumnLit(column, doc) ==
    LET i == MemberIndex(doc, column.sourceColumnName)
        x == doc.v[i].value
    IN  IF i = 0 THEN NullLit
        ELSE IF x.t = "null" THEN NullLit
        ELSE IF ~AccessorDefined(column.columnType, x) THEN UndefLit
        ELSE CASE column.columnType = "bigint" -> Lit("int", x, IntTextLen(x))
               [] column.columnType = "boolean" ->
                    Lit("bool", x.v, IF x.v THEN 4 ELSE 5)
               [] column.columnType = "numeric" ->
                    IF ExceedsNumeric(x) THEN Lit("num", JInt(0), 1)
                    ELSE Lit("num", x, DoubleTextLen(x))
               [] OTHER ->
                    IF encode_string_const_len(x.v) >= MaxStringLen THEN NullLit
                    ELSE Lit("str", CStr(x.v), encode_string_const_len(x.v))

\* doc["id"].GetString(), encoded; no length limit applies to it.
IdLit(doc) ==
    LET i == MemberIndex(doc, IdName)
    IN  IF i = 0 THEN UndefLit
        ELSE IF doc.v[i].value.t # "str" THEN UndefLit
        ELSE Lit("str", CStr(doc.v[i].value.v),
                 encode_string_const_len(doc.v[i].value.v))

NonIdColumns(cols) == SelectSeq(cols, LAMBDA c : c.columnName # IdName)

RECURSIVE SumLens(_)
SumLens(ls) == IF ls = << >> THEN 0 ELSE Head(ls).len + 1 + SumLens(Tail(ls))

\* writeTuple: the tuple appended to the insert buffer.  lead: the comma
\* written first when *recordCount > 0.
writeTuple(cols, doc, rc) ==
    LET nic == NonIdColumns(cols)
        vals == [i \in 1..Len(nic) |-> ColumnLit(nic[i], doc)]
        id == IdLit(doc)
        data == DataLit(doc)
    IN  [lead |-> rc > 0, id |-> id, vals |-> vals, data |-> data,
         len |-> (IF rc > 0 THEN 1 ELSE 0) + 1 + id.len + 1 + SumLens(vals)
                    + data.len + 3]

\* Some rapidjson accessor of writeTuple is called outside its precondition
\* (an assertion failure, or undefined behaviour when assertions are off).
WriteTupleUndefined(cols, doc) ==
    LET t == writeTuple(cols, doc, 0)
    IN  \/ t.id = UndefLit
        \/ \E i \in 1..Len(t.vals) : t.vals[i] = UndefLit

-----------------------------------------------------------------------------
(* The insert buffer *)

InsertThreshold == 16500000

\* Length of "INSERT INTO " + loadingTable + " VALUES ".
InsertHeaderLen == 40

EmptyBuffer == [hdr |-> FALSE, tuples |-> << >>, len |-> 0]

\* A slip in the flush test: the number of tuples is compared instead of
\* the number of characters.
FlushDueByCount(buf) == Len(buf.tuples) > InsertThreshold

\* insertBuffer.length() > 16500000 (line 344).
FlushDue(buf) == buf.len > InsertThreshold

\* beginInserts: the buffer is overwritten with the statement's head.
beginInserts == [hdr |-> TRUE, tuples |-> << >>, len |-> InsertHeaderLen]

Stmt(kind, x) == [kind |-> kind, x |-> x]

\* endInserts: ";\n" is appended and the text executed.
InsertStmt(buf) ==
    Stmt("INSERT", [hdr |-> buf.hdr, tuples |-> buf.tuples, len |-> buf.len + 2])

AppendTuple(buf, t) ==
    [buf EXCEPT !.tuples = Append(@, t), !.len = @ + t.len]

-----------------------------------------------------------------------------
(* The schema built after pass 1, and the statements of the two DDL steps *)

DataName == <<100, 97, 116, 97>>

\* The keys of a std::map<string, ...> in iteration order (ascending).
RECURSIVE SortedKeys(_)
SortedKeys(S) ==
    IF S = {} THEN << >>
    ELSE LET m == CHOOSE x \in S : \A y \in S : strcmp(x, y) <= 0
         IN  <<m>> \o SortedKeys(S \ {m})

\* ColumnSchema::selectColumnType: the column type for the statistics of
\* one field, or failure when the field mixes strings, numbers and booleans.
selectColumnType(field, counts) ==
    LET kinds == (IF counts.string > 0 THEN 1 ELSE 0)
                   + (IF counts.number > 0 THEN 1 ELSE 0)
                   + (IF counts.boolean > 0 THEN 1 ELSE 0)
    IN  IF field = IdName THEN [ok |-> TRUE, columnType |-> "id"]
        ELSE IF kinds > 1 THEN [ok |-> FALSE, columnType |-> "none"]
        ELSE IF counts.string > 0
        THEN [ok |-> TRUE,
              columnType |-> IF counts.uuid = counts.string THEN "id"
                             ELSE IF counts.dateTime = counts.string
                             THEN "timestamptz" ELSE "varchar"]
        ELSE IF counts.number > 0
        THEN [ok |-> TRUE,
              columnType |-> IF counts.floating > 0 THEN "numeric"
                             ELSE "bigint"]
        ELSE IF counts.boolean > 0 THEN [ok |-> TRUE, columnType |-> "boolean"]
        ELSE [ok |-> TRUE, columnType |-> "varchar"]

\* decode_camel_case: an upper-case letter becomes '_' and the letter in
\* lower case.
RECURSIVE decode_camel_case(_)
decode_camel_case(bs) ==
    IF bs = << >> THEN << >>
    ELSE (IF Head(bs) \in 65..90 THEN <<95, Head(bs) + 32>> ELSE <<Head(bs)>>)
             \o decode_camel_case(Tail(bs))

ColumnSchema(columnName, sourceColumnName, columnType) ==
    [columnName |-> columnName, sourceColumnName |-> sourceColumnName,
     columnType |-> columnType]

\* Lines 716-734: one column is pushed per field, in map order, until
\* selectColumnType fails; the columns pushed before a failure stay.
RECURSIVE PushColumns(_, _, _)
PushColumns(cols, fields, st) ==
    IF fields = << >> THEN [ok |-> TRUE, columns |-> cols]
    ELSE LET field == Head(fields)
             sel == selectColumnType(field, st[field])
         IN  IF ~sel.ok THEN [ok |-> FALSE, columns |-> cols]
             ELSE PushColumns(
                      Append(cols, ColumnSchema(decode_camel_case(field), field,
                                                sel.columnType)),
                      Tail(fields), st)

TenantIdName == <<116, 101, 110, 97, 110, 116, 95, 105, 100>>

\* One line of the column list of CREATE TABLE.
TableColumn(name, type, notNull) ==
    [name |-> name, type |-> type, notNull |-> notNull]

\* A slip in createLoadingTable: the id column of the schema is listed
\* again among the typed columns.
TableColumnsWithId(cols) ==
    <<TableColumn(IdName, "VARCHAR(36)", TRUE)>>
      \o [i \in 1..Len(cols) |->
             TableColumn(cols[i].columnName, cols[i].columnType, FALSE)]
      \o <<TableColumn(DataName, "json", FALSE),
           TableColumn(TenantIdName, "SMALLINT", TRUE)>>

\* Lines 597-614: the column list of CREATE TABLE: id, the columns of the
\* schema other than id in vector order, data, tenant_id.
TableColumns(cols) ==
    LET nic == NonIdColumns(cols)
    IN  <<TableColumn(IdName, "VARCHAR(36)", TRUE)>>
          \o [i \in 1..Len(nic) |->
                 TableColumn(nic[i].columnName, nic[i].columnType, FALSE)]
          \o <<TableColumn(DataName, "json", FALSE),
               TableColumn(TenantIdName, "SMALLINT", TRUE)>>

\* A slip in createLoadingTable: the comment is set after the grants.
createLoadingTableCommentLast(cols, module, dialect) ==
    <<Stmt("CREATE TABLE", [columns |-> TableColumns(cols), dialect |-> dialect])>>
      \o <<Stmt("GRANT", "ldpconfig_user"), Stmt("GRANT", "ldp_user")>>
      \o (IF module # "mod-agreements" THEN <<Stmt("COMMENT", module)>>
          ELSE << >>)

\* The statements createLoadingTable executes, in order.
createLoadingTable(cols, module, dialect) ==
    <<Stmt("CREATE TABLE", [columns |-> TableColumns(cols), dialect |-> dialect])>>
      \o (IF module # "mod-agreements" THEN <<Stmt("COMMENT", module)>>
          ELSE << >>)
      \o <<Stmt("GRANT", "ldpconfig_user"), Stmt("GRANT", "ldp_user")>>

\* The statements indexLoadingTable executes, in order.
RECURSIVE IndexStatements(_, _)
IndexStatements(cols, dialect) ==
    IF cols = << >> THEN << >>
    ELSE (IF Head(cols).columnName = IdName
          THEN <<Stmt("ALTER TABLE ADD PRIMARY KEY", IdName)>>
          ELSE IF dialect = "PostgreSQL" /\ Head(cols).columnName # DataName
          THEN <<Stmt("CREATE INDEX", Head(cols).columnName)>>
          ELSE << >>)
             \o IndexStatements(Tail(cols), dialect)

indexLoadingTable(cols, dialect) ==
    IF Len(cols) = 0 THEN <<Stmt("ALTER TABLE ADD PRIMARY KEY", IdName)>>
    ELSE IndexStatements(cols, dialect)

-----------------------------------------------------------------------------
(* The files of the load directory *)

\* A string shaped like a UUID, all of whose hexadecimal digits are d.
Uuid(d) ==
    Rep(d, 8) \o Rep(45, 1) \o Rep(d, 4) \o Rep(45, 1) \o Rep(d, 4)
        \o Rep(45, 1) \o Rep(d, 4) \o Rep(45, 1) \o Rep(d, 12)

Wrap(records) ==
    JObj(<<Mem(<<97>>, JArr(records)),
           Mem(<<116, 111, 116, 97, 108>>, JInt(Len(records)))>>)

\* {"name":"x","id":"1111...","n":-5,"f":1.5,"aB":true,"z":null,
\*  "o":{"k":[5000000000,-5000000000]}}
Record1 ==
    JObj(<<Mem(<<110, 97, 109, 101>>, JStr(Rep(120, 1))),
           Mem(IdName, JStr(Uuid(49))),
           Mem(<<110>>, JInt(-5)),
           Mem(<<102>>, JFloat(15000000)),
           Mem(<<97, 66>>, JBool(TRUE)),
           Mem(<<122>>, JNull),
           Mem(<<111>>, JObj(<<Mem(<<107>>, JArr(<<JBig(5), JBig(-5)>>))>>))>>)

\* {"n":7,"id":"2222..."}
Record2 == JObj(<<Mem(<<110>>, JInt(7)), Mem(IdName, JStr(Uuid(50)))>>)

\* A record whose id is a string of n characters.
IdOnly(b, n) == JObj(<<Mem(IdName, JStr(Rep(b, n)))>>)

\* The name of a file, and its content.
FileContent(f) ==
    CASE f = "ok" -> WellFormed(Wrap(<<Record1, Record2>>))
      [] f = "empty" -> WellFormed(Wrap(<< >>))
      \* [ {"id":"5555...","n":1} ]
      [] f = "toparray" ->
           WellFormed(JArr(<<JObj(<<Mem(IdName, JStr(Uuid(53))),
                                    Mem(<<110>>, JInt(1))>>)>>))
      \* {"a":[{"id":"4444..."},{"id":     and the file ends
      [] f = "malformed" ->
           Malformed(Wrap(<<IdOnly(52, 36), IdOnly(52, 36)>>), 9)
      \* {"a":[{"id":"3333...","q\"":1}],"total":1}
      [] f = "quotekey" ->
           WellFormed(Wrap(<<JObj(<<Mem(IdName, JStr(Uuid(51))),
                                    Mem(<<113, 34>>, JInt(1))>>)>>))
      \* {"a":[{"id":"6666...","n":"y"}],"b":[]}
      [] f = "twoarrays" ->
           WellFormed(JObj(<<
               Mem(<<97>>, JArr(<<JObj(<<Mem(IdName, JStr(Uuid(54))),
                                         Mem(<<110>>, JStr(Rep(121, 1)))>>)>>)),
               Mem(<<98>>, JArr(<< >>))>>))
      \* a first tuple that fills the buffer to the threshold exactly
      [] f = "big3" ->
           WellFormed(Wrap(<<IdOnly(55, 16499949), IdOnly(56, 36),
                             IdOnly(57, 36)>>))
      \* the threshold is crossed by the last tuple
      [] f = "big1" ->
           WellFormed(Wrap(<<IdOnly(56, 36), IdOnly(55, 16500000)>>))
      \* {"a":[{"id":"aaaa...","aB":false}],"total":1}
      [] f = "test" ->
           WellFormed(Wrap(<<JObj(<<Mem(IdName, JStr(Uuid(97))),
                                    Mem(<<97, 66>>, JBool(FALSE))>>)>>))
      \* {"m":{"x":{}},"a":[{"id":"7777..."}]}
      [] f = "nested" ->
           WellFormed(JObj(<<
               Mem(<<109>>, JObj(<<Mem(<<120>>, JObj(<< >>))>>)),
               Mem(<<97>>, JArr(<<IdOnly(55, 36)>>))>>))
      \* {"a":[{"id":"8888...","s":"\"\\\n\u0001\u00e9"}]} (the last
      \* character as the two bytes of its UTF-8 form)
      [] f = "bytes" ->
           WellFormed(JObj(<<
               Mem(<<97>>, JArr(<<JObj(<<
                   Mem(IdName, JStr(Uuid(56))),
                   Mem(<<115>>, JStr(Rep(34, 1) \o Rep(92, 1) \o Rep(10, 1)
                                       \o Rep(1, 1) \o Rep(195, 1)
                                       \o Rep(169, 1)))>>)>>))>>))
      [] OTHER -> NoFile

PageNames ==
    {"ok", "empty", "toparray", "malformed", "quotekey", "twoarrays",
     "big3", "big1", "absent"}

MaxPages == 2

RECURSIVE SeqsUpTo(_, _)
SeqsUpTo(S, n) ==
    IF n = 0 THEN { << >> }
    ELSE LET shorter == SeqsUpTo(S, n - 1)
         IN  shorter \cup { Append(s, x) : s \in { t \in shorter : Len(t) = n - 1 },
                                          x \in S }

-----------------------------------------------------------------------------
(* JSONHandler: one action per Reader callback *)

\* The Reader is about to call handler method e.
Handling(e) == pc = "parse" /\ events # << >> /\ Head(events).e = e

\* record += ... for a scalar: only inside a record of the array.
AppendScalar(toks) ==
    record' = IF active /\ level > 2 THEN record \o toks ELSE record

\* What a callback that only touches the text leaves alone.
TextOnly ==
    UNCHANGED <<inputVars, stageVars, harnessVars, histVars, inTest, level,
                active, recordCount, totalRecordCount, insertBuffer>>

\* A const char* name stops at the first NUL byte.
RECURSIVE CName(_)
CName(bs) ==
    IF bs = << >> \/ Head(bs) = 0 THEN << >>
    ELSE <<Head(bs)>> \o CName(Tail(bs))

\* A slip in StartObject: the text is restarted one level too high.
StartObjectAtLevel1 ==
    /\ Handling("StartObject")
    /\ events' = Tail(events)
    /\ record' = IF level = 1 THEN <<LBrace>>
                 ELSE IF level > 1 THEN Append(record, LBrace)
                 ELSE record
    /\ level' = level + 1
    /\ UNCHANGED <<inputVars, stageVars, harnessVars, histVars, inTest, active,
                   recordCount, totalRecordCount, insertBuffer>>

StartObject ==
    /\ Handling("StartObject")
    /\ events' = Tail(events)
    /\ record' = IF level = 2 THEN <<LBrace>>
                 ELSE IF level > 2 THEN Append(record, LBrace)
                 ELSE record
    /\ level' = level + 1
    /\ UNCHANGED <<inputVars, stageVars, harnessVars, histVars, inTest, active,
                   recordCount, totalRecordCount, insertBuffer>>

Key ==
    /\ Handling("Key")
    /\ events' = Tail(events)
    /\ record' = Append(record, Tok("key", CName(Head(events).x)))
    /\ TextOnly

String ==
    /\ Handling("String")
    /\ events' = Tail(events)
    /\ AppendScalar(<<Tok("str", encodeJSON(Head(events).x)), Comma>>)
    /\ TextOnly

\* JSONHandler::Int (the name Int is taken by the Integers module).
Int_ ==
    /\ Handling("Int")
    /\ events' = Tail(events)
    /\ AppendScalar(<<Tok("num", Head(events).x), Comma>>)
    /\ TextOnly

Uint ==
    /\ Handling("Uint")
    /\ events' = Tail(events)
    /\ AppendScalar(<<Tok("num", Head(events).x), Comma>>)
    /\ TextOnly

Int64 ==
    /\ Handling("Int64")
    /\ events' = Tail(events)
    /\ AppendScalar(<<Tok("num", Head(events).x), Comma>>)
    /\ TextOnly

Uint64 ==
    /\ Handling("Uint64")
    /\ events' = Tail(events)
    /\ AppendScalar(<<Tok("num", Head(events).x), Comma>>)
    /\ TextOnly

Double ==
    /\ Handling("Double")
    /\ events' = Tail(events)
    /\ AppendScalar(<<Tok("num", Head(events).x), Comma>>)
    /\ TextOnly

Bool ==
    /\ Handling("Bool")
    /\ events' = Tail(events)
    /\ AppendScalar(<<Tok(IF Head(events).x THEN "true" ELSE "false", 0), Comma>>)
    /\ TextOnly

Null ==
    /\ Handling("Null")
    /\ events' = Tail(events)
    /\ AppendScalar(<<Tok("null", 0), Comma>>)
    /\ TextOnly

\* A slip in StartArray: beginInserts is called in pass 1 as well.
StartArrayBeginAlways ==
    /\ Handling("StartArray")
    /\ events' = Tail(events)
    /\ IF level = 1
       THEN /\ active' = TRUE
            /\ insertBuffer' = beginInserts
            /\ arrayNo' = arrayNo + 1
            /\ sqlMark' = Len(sqlLog)
            /\ UNCHANGED record
       ELSE /\ record' = IF level > 1 THEN Append(record, LBracket) ELSE record
            /\ UNCHANGED <<active, insertBuffer, arrayNo, sqlMark>>
    /\ level' = level + 1
    /\ UNCHANGED <<inputVars, stageVars, harnessVars, parseLog, subParsed,
                   failedAt, statsMark, inTest, recordCount, totalRecordCount>>

StartArray ==
    /\ Handling("StartArray")
    /\ events' = Tail(events)
    /\ IF level = 1
       THEN /\ active' = TRUE
            /\ insertBuffer' = IF pass = 2 THEN beginInserts ELSE insertBuffer
            /\ arrayNo' = arrayNo + 1
            /\ sqlMark' = Len(sqlLog)
            /\ UNCHANGED record
       ELSE /\ record' = IF level > 1 THEN Append(record, LBracket) ELSE record
            /\ UNCHANGED <<active, insertBuffer, arrayNo, sqlMark>>
    /\ level' = level + 1
    /\ UNCHANGED <<inputVars, stageVars, harnessVars, parseLog, subParsed,
                   failedAt, statsMark, inTest, recordCount, totalRecordCount>>

\* A slip in EndArray: the pending tuples are executed only when the buffer
\* is over the threshold.
EndArrayFlushIfFull ==
    /\ Handling("EndArray")
    /\ events' = Tail(events)
    /\ IF level = 2
       THEN /\ active' = FALSE
            /\ IF recordCount > 0 /\ pass = 2 /\ FlushDue(insertBuffer)
               THEN /\ sqlLog' = Append(sqlLog, InsertStmt(insertBuffer))
                    /\ insertBuffer' = EmptyBuffer
               ELSE UNCHANGED <<sqlLog, insertBuffer>>
            /\ UNCHANGED record
       ELSE /\ record' = IF level > 2 THEN record \o <<RBracket, Comma>>
                         ELSE record
            /\ UNCHANGED <<active, sqlLog, insertBuffer>>
    /\ level' = level - 1
    /\ UNCHANGED <<inputVars, harnessVars, histVars, pc, pass, page, pageCount,
                   stats, columns, inTest, recordCount, totalRecordCount>>

EndArray ==
    /\ Handling("EndArray")
    /\ events' = Tail(events)
    /\ IF level = 2
       THEN /\ active' = FALSE
            /\ IF recordCount > 0 /\ pass = 2
               THEN /\ sqlLog' = Append(sqlLog, InsertStmt(insertBuffer))
                    /\ insertBuffer' = EmptyBuffer
               ELSE UNCHANGED <<sqlLog, insertBuffer>>
            /\ UNCHANGED record
       ELSE /\ record' = IF level > 2 THEN record \o <<RBracket, Comma>>
                         ELSE record
            /\ UNCHANGED <<active, sqlLog, insertBuffer>>
    /\ level' = level - 1
    /\ UNCHANGED <<inputVars, harnessVars, histVars, pc, pass, page, pageCount,
                   stats, columns, inTest, recordCount, totalRecordCount>>

\* The record that closes reaches undefined behaviour: a std::sort whose
\* comparator is not a strict weak ordering, or (pass 2) a rapidjson
\* accessor of writeTuple outside its precondition.
RecordUndefined(doc) ==
    \/ HasUndefinedSort(doc)
    \/ pass = 2 /\ WriteTupleUndefined(columns, doc)

EndObject ==
    /\ Handling("EndObject")
    /\ IF level # 3
       THEN /\ events' = Tail(events)
            /\ record' = IF level > 3 THEN record \o <<RBrace, Comma>>
                         ELSE record
            /\ level' = level - 1
            /\ UNCHANGED <<inputVars, stageVars, harnessVars, histVars, inTest,
                           active, recordCount, totalRecordCount, insertBuffer>>
       ELSE LET parsed == ParseInsitu(Append(record, RBrace))
                flush == FlushDue(insertBuffer)
                buf == IF flush THEN beginInserts ELSE insertBuffer
                rc == IF flush THEN 0 ELSE recordCount
            IN  \/ \* the process stops (assertion failure, bad access)
                   /\ RecordUndefined(parsed.doc)
                   /\ pc' = "crashed"
                   /\ UNCHANGED <<inputVars, harnessVars, histVars, handlerVars,
                                  pass, page, pageCount, stats, columns,
                                  sqlLog>>
                \/ \E d \in processJSONRecord(parsed.doc) :
                     /\ events' = Tail(events)
                     /\ record' = Append(record, RBrace)
                     /\ level' = level - 1
                     /\ subParsed' = Append(subParsed,
                                            [ok |-> parsed.ok, doc |-> parsed.doc,
                                             text |-> Append(record, RBrace)])
                     /\ failedAt' = IF ~parsed.ok /\ failedAt = 0
                                    THEN Len(parseLog) ELSE failedAt
                     /\ stats' = IF pass = 1 THEN StatsAfter(stats, parsed.doc)
                                 ELSE stats
                     /\ IF pass = 2
                        THEN /\ sqlLog' = IF flush
                                          THEN Append(sqlLog, InsertStmt(insertBuffer))
                                          ELSE sqlLog
                             /\ insertBuffer' =
                                    AppendTuple(buf, writeTuple(columns, d, rc))
                             /\ recordCount' = rc + 1
                             /\ totalRecordCount' = totalRecordCount + 1
                        ELSE UNCHANGED <<sqlLog, insertBuffer, recordCount,
                                         totalRecordCount>>
                     /\ UNCHANGED <<inputVars, harnessVars, parseLog, arrayNo,
                                    sqlMark, statsMark, pc, pass, page,
                                    pageCount, columns, inTest, active>>

-----------------------------------------------------------------------------
(* stageTable *)

NoStats == [n \in {} |-> ZeroCounts]

\* stageTable is not under runLoad.
NoLoad ==
    loadStep = "off" /\ tableNo = 0 /\ connLog = << >> /\ preLog = << >>

\* No second pass 1 has begun.
NoAlt ==
    [phase |-> "off", stats |-> NoStats, todo |-> {}, columns |-> << >>,
     moved |-> FALSE]

\* The file of the stagePage call in progress (or of the last one).
CurrentFile == FileContent(parseLog[Len(parseLog)].file)

\* stagePage: the file is opened and a fresh JSONHandler is constructed.
BeginPage(f, test) ==
    /\ events' = FileContent(f).ev
    /\ inTest' = test
    /\ level' = 0
    /\ active' = FALSE
    /\ record' = << >>
    /\ recordCount' = 0
    /\ totalRecordCount' = 0
    /\ insertBuffer' = EmptyBuffer
    /\ parseLog' = Append(parseLog, [pass |-> pass, file |-> f])
    /\ subParsed' = << >>
    /\ arrayNo' = 0
    /\ sqlMark' = Len(sqlLog)
    /\ statsMark' = stats
    /\ pc' = "parse"

ReadPageCount ==
    /\ pc = "start"
    /\ CASE countFile = "missing" -> pageCount' = 0 /\ pc' = "loop"
         [] countFile = "unreadable" -> pageCount' = pageCount /\ pc' = "thrown"
         [] OTHER -> pageCount' = declaredCount /\ pc' = "loop"
    /\ pass' = 1
    /\ page' = 0
    /\ UNCHANGED <<inputVars, harnessVars, histVars, handlerVars, stats, columns,
                   sqlLog>>

\* A slip in the page loop: the pages are taken from the last to the first.
OpenPageDescending ==
    /\ pc = "loop"
    /\ page < pageCount
    /\ IF FileContent(pageFiles[pageCount - page]).exists
       THEN /\ BeginPage(pageFiles[pageCount - page], FALSE)
            /\ UNCHANGED failedAt
       ELSE /\ pc' = "thrown"
            /\ UNCHANGED <<histVars, handlerVars>>
    /\ UNCHANGED <<inputVars, harnessVars, pass, page, pageCount, stats, columns,
                   sqlLog>>

OpenPage ==
    /\ pc = "loop"
    /\ page < pageCount
    /\ IF FileContent(pageFiles[page + 1]).exists
       THEN /\ BeginPage(pageFiles[page + 1], FALSE)
            /\ UNCHANGED failedAt
       ELSE /\ pc' = "thrown"
            /\ UNCHANGED <<histVars, handlerVars>>
    /\ UNCHANGED <<inputVars, harnessVars, pass, page, pageCount, stats, columns,
                   sqlLog>>

\* reader.Parse returns: its result is not looked at, and the handler goes
\* away with whatever its insert buffer holds.
StagePageReturn ==
    /\ pc = "parse"
    /\ events = << >>
    /\ failedAt' = IF ~CurrentFile.ok /\ failedAt = 0 THEN Len(parseLog)
                   ELSE failedAt
    /\ IF inTest THEN pc' = "post" /\ page' = page
       ELSE pc' = "loop" /\ page' = page + 1
    /\ level' = 0
    /\ active' = FALSE
    /\ record' = << >>
    /\ recordCount' = 0
    /\ totalRecordCount' = 0
    /\ insertBuffer' = EmptyBuffer
    /\ UNCHANGED <<inputVars, harnessVars, parseLog, subParsed, arrayNo, sqlMark,
                   statsMark, events, inTest, pass, pageCount, stats, columns,
                   sqlLog>>

EndPages ==
    /\ pc = "loop"
    /\ page >= pageCount
    /\ pc' = "test"
    /\ UNCHANGED <<inputVars, harnessVars, histVars, handlerVars, pass, page,
                   pageCount, stats, columns, sqlLog>>

OpenTestFile ==
    /\ pc = "test"
    /\ loadFromDir /\ FileContent(testFile).exists
    /\ BeginPage(testFile, TRUE)
    /\ UNCHANGED <<inputVars, harnessVars, failedAt, pass, page, pageCount,
                   stats, columns, sqlLog>>

SkipTestFile ==
    /\ pc = "test"
    /\ ~(loadFromDir /\ FileContent(testFile).exists)
    /\ pc' = "post"
    /\ UNCHANGED <<inputVars, harnessVars, histVars, handlerVars, pass, page,
                   pageCount, stats, columns, sqlLog>>

\* A slip in the schema loop: the result of selectColumnType is not
\* looked at, and the field that failed gets no column.
BuildSchemaIgnoringFailure ==
    /\ pc = "post"
    /\ pass = 1
    /\ columns' = PushColumns(columns, SortedKeys(DOMAIN stats), stats).columns
    /\ pc' = "create"
    /\ UNCHANGED <<inputVars, harnessVars, histVars, handlerVars, pass, page,
                   pageCount, stats, sqlLog>>

BuildSchema ==
    /\ pc = "post"
    /\ pass = 1
    /\ LET r == PushColumns(columns, SortedKeys(DOMAIN stats), stats)
       IN  /\ columns' = r.columns
           /\ pc' = IF r.ok THEN "create" ELSE "returned_false"
    /\ UNCHANGED <<inputVars, harnessVars, histVars, handlerVars, pass, page,
                   pageCount, stats, sqlLog>>

\* A slip in the loop: the table is not created at the end of pass 1.
CreateLoadingTableSkipped ==
    /\ pc = "create"
    /\ pass' = 2
    /\ page' = 0
    /\ pc' = "loop"
    /\ UNCHANGED <<inputVars, harnessVars, histVars, handlerVars, pageCount,
                   stats, columns, sqlLog>>

\* createLoadingTable, then the loop goes to pass 2.
CreateLoadingTable ==
    /\ pc = "create"
    /\ sqlLog' = sqlLog \o createLoadingTable(columns, moduleName, dbType)
    /\ pass' = 2
    /\ page' = 0
    /\ pc' = "loop"
    /\ UNCHANGED <<inputVars, harnessVars, histVars, handlerVars, pageCount,
                   stats, columns>>

\* indexLoadingTable, then return true.
IndexLoadingTable ==
    /\ pc = "post"
    /\ pass = 2
    /\ sqlLog' = sqlLog \o indexLoadingTable(columns, dbType)
    /\ pc' = "returned_true"
    /\ UNCHANGED <<inputVars, harnessVars, histVars, handlerVars, pass, page,
                   pageCount, stats, columns>>

-----------------------------------------------------------------------------
(* The staging of one table *)

HandlerInit ==
    /\ events = << >>
    /\ inTest = FALSE
    /\ level = 0
    /\ active = FALSE
    /\ record = << >>
    /\ recordCount = 0
    /\ totalRecordCount = 0
    /\ insertBuffer = EmptyBuffer

StageInit ==
    /\ pass = 1
    /\ page = 0
    /\ pageCount = 0
    /\ stats = NoStats
    /\ columns = << >>
    /\ sqlLog = << >>
    /\ parseLog = << >>
    /\ subParsed = << >>
    /\ failedAt = 0
    /\ arrayNo = 0
    /\ sqlMark = 0
    /\ statsMark = NoStats

Init ==
    /\ countFile \in {"missing", "present", "unreadable"}
    /\ pageFiles \in SeqsUpTo(PageNames, MaxPages)
    /\ declaredCount = Len(pageFiles)
    /\ testFile \in {"test", "absent"}
    /\ loadFromDir \in BOOLEAN
    /\ moduleName \in {"mod-agreements", "mod-users"}
    /\ dbType \in {"PostgreSQL", "Redshift"}
    /\ pc = "start"
    /\ StageInit
    /\ HandlerInit
    /\ cIn = JNull /\ cOut = JNull /\ cOut2 = JNull /\ cAlt = JNull
    /\ cPhase = "off"
    /\ sRecs = << >> /\ sAlt = NoAlt /\ tDoc = JNull
    /\ NoLoad

Next ==
    \/ ReadPageCount
    \/ OpenPage
    \/ StagePageReturn
    \/ EndPages
    \/ OpenTestFile
    \/ SkipTestFile
    \/ BuildSchema
    \/ CreateLoadingTable
    \/ IndexLoadingTable
    \/ StartObject
    \/ EndObject
    \/ StartArray
    \/ EndArray
    \/ Key
    \/ String
    \/ Int_
    \/ Uint
    \/ Int64
    \/ Uint64
    \/ Double
    \/ Bool
    \/ Null

Spec == Init /\ [][Next]_vars

-----------------------------------------------------------------------------
(* The staging of a table of one page, for pages of every shape *)

PageShapes ==
    {"ok", "toparray", "quotekey", "twoarrays", "nested", "bytes"}

InitPages ==
    /\ countFile = "present"
    /\ pageFiles \in { <<f>> : f \in PageShapes }
    /\ declaredCount = 1
    /\ testFile = "test"
    /\ loadFromDir \in BOOLEAN
    /\ moduleName = "mod-users"
    /\ dbType = "PostgreSQL"
    /\ pc = "start"
    /\ StageInit
    /\ HandlerInit
    /\ cIn = JNull /\ cOut = JNull /\ cOut2 = JNull /\ cAlt = JNull
    /\ cPhase = "off"
    /\ sRecs = << >> /\ sAlt = NoAlt /\ tDoc = JNull
    /\ NoLoad

SpecPages == InitPages /\ [][Next]_vars

-----------------------------------------------------------------------------
(* runLoad (src/src/main.cpp): runPreloadTests, then the body of the table  *)
(* loop around stageTable                                                  *)

MaxTables == 2

\* The page files of the load directory of one table.
TableFiles == { <<"ok">>, <<"empty">>, <<"absent">>, <<"ok", "twoarrays">> }

\* One thing done on the connection of a table: out is "done", or "false"
\* (stageTable returned false), or "throw" (a runtime_error left the call).
ConnEvent(op, out) == [op |-> op, out |-> out]

LogOnConn(es) == connLog' = [connLog EXCEPT ![tableNo] = @ \o es]

\* A runtime_error leaves the loop body: the OdbcDbc of the iteration is
\* destroyed on the way out, and ~OdbcDbc calls rollback().
Unwind(op) ==
    /\ LogOnConn(<<ConnEvent(op, "throw"), ConnEvent("rollback", "done")>>)
    /\ loadStep' = "failed"

\* Lines 165-170: what rollbackTxn does on the connection it is handed: it
\* prints "ROLLBACK;" and calls dbc->commit().
rollbackTxn(out) == ConnEvent("commit", out)

\* A runtime_error leaves runPreloadTests and runLoad: the OdbcDbc of the
\* test is destroyed on the way out, and ~OdbcDbc calls rollback().
PreloadUnwind(e) ==
    /\ preLog' = preLog \o <<e, ConnEvent("rollback", "done")>>
    /\ loadStep' = "failed"

\* Line 178: runPreloadTests opens its connection (autocommit off); when the
\* database cannot be reached the constructor throws and runLoad is left.
PreloadConnect ==
    /\ loadStep = "preload"
    /\ \/ /\ preLog' = <<ConnEvent("connect", "done")>>
          /\ loadStep' = "pregrant"
       \/ /\ preLog' = <<ConnEvent("connect", "throw")>>
          /\ loadStep' = "failed"
    /\ UNCHANGED <<inputVars, stageVars, handlerVars, histVars, canonVars,
                   statVars, tDoc, tableNo, connLog>>

\* Lines 184-188: the GRANT that tells whether ldpUser is a valid user.
PreloadGrant ==
    /\ loadStep = "pregrant"
    /\ \/ /\ preLog' = Append(preLog, ConnEvent("grant", "done"))
          /\ loadStep' = "prerollback"
       \/ PreloadUnwind(ConnEvent("grant", "throw"))
    /\ UNCHANGED <<inputVars, stageVars, handlerVars, histVars, canonVars,
                   statVars, tDoc, tableNo, connLog>>

\* Lines 189-190: rollbackTxn, then runPreloadTests returns and its OdbcDbc
\* is destroyed.
RollbackTxn ==
    /\ loadStep = "prerollback"
    /\ \/ /\ preLog' = preLog \o <<rollbackTxn("done"),
                                    ConnEvent("rollback", "done")>>
          /\ loadStep' = "table"
       \/ PreloadUnwind(rollbackTxn("throw"))
    /\ UNCHANGED <<inputVars, stageVars, handlerVars, histVars, canonVars,
                   statVars, tDoc, tableNo, connLog>>

\* Lines 275-293: the next table; without a load directory its pages are
\* extracted first, and the table is skipped when no data was found.
BeginTable ==
    /\ loadStep = "table"
    /\ tableNo < MaxTables
    /\ tableNo' = tableNo + 1
    /\ connLog' = Append(connLog, << >>)
    /\ pageFiles' \in TableFiles
    /\ declaredCount' = Len(pageFiles')
    /\ \E foundData \in BOOLEAN :
          loadStep' = IF ~loadFromDir /\ ~foundData THEN "table" ELSE "connect"
    /\ UNCHANGED <<countFile, testFile, loadFromDir, moduleName, dbType,
                   stageVars, handlerVars, histVars, canonVars, statVars, tDoc,
                   preLog>>

\* Lines 295-301: the connection of the table is opened (autocommit off)
\* and stageTable is entered.
Connect ==
    /\ loadStep = "connect"
    /\ LogOnConn(<<ConnEvent("connect", "done")>>)
    /\ loadStep' = "stage"
    /\ pc' = "start"
    /\ pass' = 1 /\ page' = 0 /\ pageCount' = 0
    /\ stats' = NoStats /\ columns' = << >> /\ sqlLog' = << >>
    /\ parseLog' = << >> /\ subParsed' = << >> /\ failedAt' = 0
    /\ arrayNo' = 0 /\ sqlMark' = 0 /\ statsMark' = NoStats
    /\ UNCHANGED <<inputVars, handlerVars, canonVars, statVars, tDoc, tableNo, preLog>>

\* Line 301: stageTable returns; its result is not looked at.
StageTableReturns ==
    /\ loadStep = "stage"
    /\ pc \in {"returned_true", "returned_false"}
    /\ LogOnConn(<<ConnEvent("stage", IF pc = "returned_true" THEN "done"
                                      ELSE "false")>>)
    /\ loadStep' = "merge"
    /\ UNCHANGED <<inputVars, stageVars, handlerVars, histVars, canonVars,
                   statVars, tDoc, tableNo, preLog>>

\* Line 301: a runtime_error leaves stageTable.
StageTableThrows ==
    /\ loadStep = "stage"
    /\ pc = "thrown"
    /\ Unwind("stage")
    /\ UNCHANGED <<inputVars, stageVars, handlerVars, histVars, canonVars,
                   statVars, tDoc, tableNo, preLog>>

\* One call of the loop body on the connection: it returns, or a
\* runtime_error leaves it (execDirect throws when a statement fails).
OnConn(op, next) ==
    \/ /\ LogOnConn(<<ConnEvent(op, "done")>>)
       /\ loadStep' = next
    \/ Unwind(op)

\* Line 304.
MergeTable ==
    /\ loadStep = "merge"
    /\ OnConn("merge", "drop")
    /\ UNCHANGED <<inputVars, stageVars, handlerVars, histVars, canonVars,
                   statVars, tDoc, tableNo, preLog>>

\* Line 307.
DropTable ==
    /\ loadStep = "drop"
    /\ OnConn("drop", "place")
    /\ UNCHANGED <<inputVars, stageVars, handlerVars, histVars, canonVars,
                   statVars, tDoc, tableNo, preLog>>

\* Line 308.
PlaceTable ==
    /\ loadStep = "place"
    /\ OnConn("place", "grant")
    /\ UNCHANGED <<inputVars, stageVars, handlerVars, histVars, canonVars,
                   statVars, tDoc, tableNo, preLog>>

\* A slip in updateDBPermissions: it commits after its grants.
UpdateDBPermissionsCommitting ==
    /\ loadStep = "grant"
    /\ \/ /\ LogOnConn(<<ConnEvent("grant", "done"), ConnEvent("commit", "done")>>)
          /\ loadStep' = "commit"
       \/ Unwind("grant")
    /\ UNCHANGED <<inputVars, stageVars, handlerVars, histVars, canonVars,
                   statVars, tDoc, tableNo, preLog>>

\* Line 313.
UpdateDBPermissions ==
    /\ loadStep = "grant"
    /\ OnConn("grant", "commit")
    /\ UNCHANGED <<inputVars, stageVars, handlerVars, histVars, canonVars,
                   statVars, tDoc, tableNo, preLog>>

\* Lines 315-321: commitTxn, then the iteration ends and the OdbcDbc is
\* destroyed (its destructor rolls back what is open: nothing).
CommitTxn ==
    /\ loadStep = "commit"
    /\ \/ /\ LogOnConn(<<ConnEvent("commit", "done"),
                          ConnEvent("rollback", "done")>>)
          /\ loadStep' = "table"
       \/ Unwind("commit")
    /\ UNCHANGED <<inputVars, stageVars, handlerVars, histVars, canonVars,
                   statVars, tDoc, tableNo, preLog>>

\* The loop has gone through every table.
EndLoad ==
    /\ loadStep = "table"
    /\ tableNo = MaxTables
    /\ loadStep' = "done"
    /\ UNCHANGED <<inputVars, stageVars, handlerVars, histVars, canonVars,
                   statVars, tDoc, tableNo, connLog, preLog>>

InitLoad ==
    /\ countFile = "present" /\ pageFiles = << >> /\ declaredCount = 0
    /\ testFile = "test"
    /\ loadFromDir \in BOOLEAN
    /\ moduleName = "mod-users"
    /\ dbType = "PostgreSQL"
    /\ pc = "off"
    /\ StageInit
    /\ HandlerInit
    /\ cIn = JNull /\ cOut = JNull /\ cOut2 = JNull /\ cAlt = JNull
    /\ cPhase = "off"
    /\ sRecs = << >> /\ sAlt = NoAlt /\ tDoc = JNull
    /\ loadStep = "preload" /\ tableNo = 0 /\ connLog = << >>
    /\ preLog = << >>

NextLoad ==
    \/ PreloadConnect
    \/ PreloadGrant
    \/ RollbackTxn
    \/ BeginTable
    \/ Connect
    \/ Next
    \/ StageTableReturns
    \/ StageTableThrows
    \/ MergeTable
    \/ DropTable
    \/ PlaceTable
    \/ UpdateDBPermissions
    \/ CommitTxn
    \/ EndLoad

SpecLoad == InitLoad /\ [][NextLoad]_vars

-----------------------------------------------------------------------------
(* processJSONRecord applied on its own to bounded record trees *)

MaxMembers == 3

CanonNames == {IdName, <<97>>, <<98>>}

\* 1, 2, {"b":1,"a":2}, [{"b":1,"id":2}]
CanonValues ==
    {JInt(1), JInt(2),
     JObj(<<Mem(<<98>>, JInt(1)), Mem(<<97>>, JInt(2))>>),
     JArr(<<JObj(<<Mem(<<98>>, JInt(1)), Mem(IdName, JInt(2))>>)>>)}

CanonInputs ==
    { JObj(ms) :
        ms \in SeqsUpTo({Mem(n, x) : n \in CanonNames, x \in CanonValues},
                        MaxMembers) }

\* processJSONRecord(&doc, &doc, ...) on the parsed record.
Canonicalize ==
    /\ cPhase = "start"
    /\ \/ /\ HasUndefinedSort(cIn)
          /\ cPhase' = "crashed"
          /\ UNCHANGED cOut
       \/ \E d \in processJSONRecord(cIn) :
              /\ cOut' = d
              /\ cPhase' = "once"
    /\ UNCHANGED <<inputVars, stageVars, handlerVars, histVars, statVars,
                   tDoc, cIn, cOut2, cAlt,
                   loadVars>>

\* processJSONRecord applied again, to its own result.
Recanonicalize ==
    /\ cPhase = "once"
    /\ \/ /\ HasUndefinedSort(cOut)
          /\ cPhase' = "crashed"
          /\ UNCHANGED cOut2
       \/ \E d \in processJSONRecord(cOut) :
              /\ cOut2' = d
              /\ cPhase' = "twice"
    /\ UNCHANGED <<inputVars, stageVars, handlerVars, histVars, statVars,
                   tDoc, cIn, cOut, cAlt,
                   loadVars>>

\* The same tree with the members of every object listed in another order
\* (the elements of an array keep theirs).
RECURSIVE Reorderings(_)
Reorderings(node) ==
    CASE node.t = "arr" ->
           { JArr(es) :
               es \in SeqChoices([i \in 1..Len(node.v) |->
                                     Reorderings(node.v[i])]) }
      [] node.t = "obj" ->
           UNION { { JObj([i \in 1..Len(p) |-> Mem(p[i].name, vs[i])]) :
                       vs \in SeqChoices([i \in 1..Len(p) |->
                                            Reorderings(p[i].value)]) } :
                   p \in Perms(node.v) }
      [] OTHER -> {node}

\* processJSONRecord on a record that holds the members of cIn in another
\* order.
CanonicalizeReordered ==
    /\ cPhase = "once"
    /\ \E r \in Reorderings(cIn) :
          \/ /\ HasUndefinedSort(r)
             /\ cPhase' = "crashed"
             /\ UNCHANGED cAlt
          \/ \E d \in processJSONRecord(r) :
                 /\ cAlt' = d
                 /\ cPhase' = "pair"
    /\ UNCHANGED <<inputVars, stageVars, handlerVars, histVars, statVars,
                   tDoc, cIn, cOut, cOut2,
                   loadVars>>

InitCanon ==
    /\ cIn \in CanonInputs
    /\ cOut = JNull /\ cOut2 = JNull /\ cAlt = JNull /\ cPhase = "start"
    /\ sRecs = << >> /\ sAlt = NoAlt /\ tDoc = JNull
    /\ NoLoad
    /\ countFile = "missing" /\ pageFiles = << >> /\ declaredCount = 0
    /\ testFile = "absent" /\ loadFromDir = FALSE
    /\ moduleName = "mod-users" /\ dbType = "PostgreSQL"
    /\ pc = "off"
    /\ StageInit
    /\ HandlerInit

NextCanon == Canonicalize \/ Recanonicalize \/ CanonicalizeReordered

SpecCanon == InitCanon /\ [][NextCanon]_vars

-----------------------------------------------------------------------------
(* Pass 1 on its own: records counted one by one, then the schema loop *)

MaxRecords == 3

\* {"s":"x","id":"1111...","n":1}
SRec1 ==
    JObj(<<Mem(<<115>>, JStr(Rep(120, 1))), Mem(IdName, JStr(Uuid(49))),
           Mem(<<110>>, JInt(1))>>)

\* {"n":1.5,"id":"2222..."}
SRec2 == JObj(<<Mem(<<110>>, JFloat(15000000)), Mem(IdName, JStr(Uuid(50)))>>)

\* {"n":null,"n":2}
SRec3 == JObj(<<Mem(<<110>>, JNull), Mem(<<110>>, JInt(2))>>)

\* {"id":"4444...","o":{"k":1},"l":[1]}
SRec4 ==
    JObj(<<Mem(IdName, JStr(Uuid(52))),
           Mem(<<111>>, JObj(<<Mem(<<107>>, JInt(1))>>)),
           Mem(<<108>>, JArr(<<JInt(1)>>))>>)

\* {"s":true}
SRec5 == JObj(<<Mem(<<115>>, JBool(TRUE))>>)

\* {"id":"a","id":"b"}
SRec6 ==
    JObj(<<Mem(IdName, JStr(Rep(97, 1))), Mem(IdName, JStr(Rep(98, 1)))>>)

StatRecords == {SRec1, SRec2, SRec3, SRec4, SRec5, SRec6}

\* EndObject at level 3 in pass 1: processJSONRecord with collectStats.
CollectStats ==
    /\ pc = "collect"
    /\ Len(sRecs) < MaxRecords
    /\ \E rec \in StatRecords :
          \/ /\ HasUndefinedSort(rec)
             /\ pc' = "crashed"
             /\ UNCHANGED <<stats, sRecs>>
          \/ \E d \in processJSONRecord(rec) :
                 /\ stats' = StatsAfter(stats, d)
                 /\ sRecs' = Append(sRecs, rec)
                 /\ pc' = pc
    /\ UNCHANGED <<inputVars, canonVars, tDoc, sAlt, histVars, handlerVars,
                   pass, page, pageCount, columns, sqlLog,
                   loadVars>>

\* The page loop and the test file of pass 1 are over.
EndAnalysis ==
    /\ pc = "collect"
    /\ pc' = "post"
    /\ UNCHANGED <<inputVars, harnessVars, histVars, handlerVars, pass, page,
                   pageCount, stats, columns, sqlLog>>

\* A second stageTable call starts its pass 1 on the same records.
AltStart ==
    /\ pc \in {"create", "returned_false"}
    /\ sAlt.phase = "off"
    /\ sAlt' = [phase |-> "collect", stats |-> NoStats,
                todo |-> 1..Len(sRecs), columns |-> << >>, moved |-> FALSE]
    /\ UNCHANGED <<inputVars, stageVars, handlerVars, histVars, canonVars,
                   tDoc, sRecs,
                   loadVars>>

\* It counts one of the records not yet counted, whichever comes next in
\* its pages, with the members in whichever order they are listed there.
AltCount ==
    /\ pc \in {"create", "returned_false"}
    /\ sAlt.phase = "collect"
    /\ \E i \in sAlt.todo :
          \E r \in Reorderings(sRecs[i]) :
              \/ /\ HasUndefinedSort(r)
                 /\ pc' = "crashed"
                 /\ UNCHANGED sAlt
              \/ \E d \in processJSONRecord(r) :
                     /\ sAlt' = [sAlt EXCEPT
                                   !.stats = StatsAfter(@, d),
                                   !.todo = @ \ {i},
                                   !.moved = @ \/ r # sRecs[i]
                                               \/ \E j \in sAlt.todo : j < i]
                     /\ pc' = pc
    /\ UNCHANGED <<inputVars, handlerVars, histVars, canonVars, tDoc, sRecs,
                   pass, page, pageCount, stats, columns, sqlLog,
                   loadVars>>

\* Its schema loop (lines 716-735).
AltSchema ==
    /\ pc \in {"create", "returned_false"}
    /\ sAlt.phase = "collect"
    /\ sAlt.todo = {}
    /\ LET r == PushColumns(<< >>, SortedKeys(DOMAIN sAlt.stats), sAlt.stats)
       IN  sAlt' = [sAlt EXCEPT
                      !.columns = r.columns,
                      !.phase = IF r.ok THEN "create" ELSE "returned_false"]
    /\ UNCHANGED <<inputVars, stageVars, handlerVars, histVars, canonVars,
                   tDoc, sRecs,
                   loadVars>>

InitStats ==
    /\ countFile = "present" /\ pageFiles = << >> /\ declaredCount = 0
    /\ testFile = "absent" /\ loadFromDir = FALSE
    /\ moduleName = "mod-users" /\ dbType = "PostgreSQL"
    /\ pc = "collect"
    /\ StageInit
    /\ HandlerInit
    /\ cIn = JNull /\ cOut = JNull /\ cOut2 = JNull /\ cAlt = JNull
    /\ cPhase = "off"
    /\ sRecs = << >> /\ sAlt = NoAlt /\ tDoc = JNull
    /\ NoLoad

NextStats ==
    \/ CollectStats
    \/ EndAnalysis
    \/ BuildSchema
    \/ AltStart
    \/ AltCount
    \/ AltSchema

SpecStats == InitStats /\ [][NextStats]_vars

-----------------------------------------------------------------------------
(* writeTuple on its own: the records of a one-page table, from the start  *)
(* of the record array in pass 2                                           *)

MaxTupleRecords == 2

\* A record {"id":"<uuid>","x":<value>}.
WithX(d, value) ==
    JObj(<<Mem(<<120>>, value), Mem(IdName, JStr(Uuid(d)))>>)

DateTimeText ==
    Rep(50, 1) \o Rep(48, 3) \o Rep(45, 1) \o Rep(49, 2) \o Rep(45, 1)
        \o Rep(49, 2) \o Rep(84, 1) \o Rep(49, 2) \o Rep(58, 1) \o Rep(49, 2)
        \o Rep(58, 1) \o Rep(49, 2)

\* The values of x: absent; null; 7; 5 000 000 000 (beyond 32 bits);
\* 10^10; 11 * 10^9; -11 * 10^9; 1.5; true; "y"; a string whose literal is
\* 65,535 characters long, and one of 65,534; a string with which only the
\* compact text of the record fits 65,535; a UUID; a date and time.  One
\* record has an id of 65,540 characters.
TupleRecords ==
    { JObj(<<Mem(IdName, JStr(Uuid(48)))>>),
      JObj(<<Mem(IdName, JStr(Rep(97, 65540)))>>),
      WithX(49, JNull),
      WithX(50, JInt(7)),
      WithX(51, JBig(5)),
      WithX(52, JBig(10)),
      WithX(53, JBig(11)),
      WithX(54, JBig(-11)),
      WithX(55, JFloat(15000000)),
      WithX(56, JBool(TRUE)),
      WithX(57, JStr(Rep(121, 1))),
      WithX(97, JStr(Rep(121, 65533))),
      WithX(98, JStr(Rep(121, 65532))),
      WithX(99, JStr(Rep(121, 65475))),
      WithX(100, JStr(Uuid(101))),
      WithX(102, JStr(DateTimeText)) }

\* The statistics pass 1 leaves for these records.
RECURSIVE Pass1Stats(_, _)
Pass1Stats(st, recs) ==
    IF recs = << >> THEN st
    ELSE Pass1Stats(StatsAfter(st, Head(recs)), Tail(recs))

Pass1Schema(recs) ==
    LET st == Pass1Stats(NoStats, recs)
    IN  PushColumns(<< >>, SortedKeys(DOMAIN st), st)

\* EndObject at level 3 in pass 2, below the flush threshold: the next
\* record of the array is sorted and handed to writeTuple.
WriteNext ==
    /\ pc = "tuple"
    /\ totalRecordCount < Len(sRecs)
    /\ LET doc == sRecs[totalRecordCount + 1]
       IN  \/ /\ RecordUndefined(doc)
              /\ pc' = "crashed"
              /\ UNCHANGED <<tDoc, insertBuffer, recordCount, totalRecordCount>>
           \/ \E d \in processJSONRecord(doc) :
                  /\ tDoc' = d
                  /\ insertBuffer' =
                         AppendTuple(insertBuffer,
                                     writeTuple(columns, d, recordCount))
                  /\ recordCount' = recordCount + 1
                  /\ totalRecordCount' = totalRecordCount + 1
                  /\ pc' = pc
    /\ UNCHANGED <<inputVars, canonVars, statVars, histVars, pass, page,
                   pageCount, stats, columns, sqlLog, events, inTest, level,
                   active, record,
                   loadVars>>

InitTuple ==
    /\ countFile = "present" /\ pageFiles = << >> /\ declaredCount = 0
    /\ testFile = "absent" /\ loadFromDir = FALSE
    /\ moduleName = "mod-users" /\ dbType = "PostgreSQL"
    /\ sRecs \in { s \in SeqsUpTo(TupleRecords, MaxTupleRecords) :
                     s # << >> /\ Pass1Schema(s).ok }
    /\ stats = Pass1Stats(NoStats, sRecs)
    /\ columns = Pass1Schema(sRecs).columns
    /\ sqlLog = createLoadingTable(columns, moduleName, dbType)
    /\ pc = "tuple"
    /\ pass = 2 /\ page = 0 /\ pageCount = 1
    /\ parseLog = << >> /\ subParsed = << >> /\ failedAt = 0
    /\ arrayNo = 1 /\ sqlMark = Len(sqlLog) /\ statsMark = stats
    /\ events = << >> /\ inTest = FALSE /\ level = 2 /\ active = TRUE
    /\ record = << >> /\ recordCount = 0 /\ totalRecordCount = 0
    /\ insertBuffer = beginInserts
    /\ cIn = JNull /\ cOut = JNull /\ cOut2 = JNull /\ cAlt = JNull
    /\ cPhase = "off"
    /\ sAlt = NoAlt /\ tDoc = JNull
    /\ NoLoad

NextTuple == WriteNext

SpecTuple == InitTuple /\ [][NextTuple]_vars

-----------------------------------------------------------------------------
(* createLoadingTable, pass 2 and indexLoadingTable for the schemas that    *)
(* pass 1 builds from the records of a one-page table                      *)

MaxDdlRecords == 2

\* {"id":"1111..."}
DRec1 == JObj(<<Mem(IdName, JStr(Uuid(49)))>>)

\* {"n":1,"id":"2222...","aB":true}
DRec2 ==
    JObj(<<Mem(<<110>>, JInt(1)), Mem(IdName, JStr(Uuid(50))),
           Mem(<<97, 66>>, JBool(TRUE))>>)

\* {"s":true}: a record without id
DRec3 == JObj(<<Mem(<<115>>, JBool(TRUE))>>)

\* {"data":"x","id":"4444..."}: a field named as the document column
DRec4 == JObj(<<Mem(DataName, JStr(Rep(120, 1))), Mem(IdName, JStr(Uuid(52)))>>)

\* {"id":"5555...","o":{"k":1}}: only id yields a column
DRec5 ==
    JObj(<<Mem(IdName, JStr(Uuid(53))),
           Mem(<<111>>, JObj(<<Mem(<<107>>, JInt(1))>>))>>)

DdlRecords == {DRec1, DRec2, DRec3, DRec4, DRec5}

\* Pass 2 reaches the record array of the page: stagePage constructs the
\* handler and StartArray at level 1 calls beginInserts.
OpenRecords ==
    /\ pc = "loop"
    /\ pass = 2
    /\ pc' = "tuple"
    /\ level' = 2
    /\ active' = TRUE
    /\ insertBuffer' = beginInserts
    /\ recordCount' = 0
    /\ totalRecordCount' = 0
    /\ arrayNo' = 1
    /\ sqlMark' = Len(sqlLog)
    /\ UNCHANGED <<inputVars, harnessVars, parseLog, subParsed, failedAt,
                   statsMark, pass, page, pageCount, stats, columns, sqlLog,
                   events, inTest, record>>

\* EndArray at level 2 after the last record, then the rest of the page and
\* the end of the page loop of pass 2.
CloseRecords ==
    /\ pc = "tuple"
    /\ totalRecordCount = Len(sRecs)
    /\ sqlLog' = IF recordCount > 0 THEN Append(sqlLog, InsertStmt(insertBuffer))
                 ELSE sqlLog
    /\ active' = FALSE
    /\ level' = 0
    /\ page' = page + 1
    /\ pc' = "post"
    /\ insertBuffer' = IF recordCount > 0 THEN EmptyBuffer ELSE insertBuffer
    /\ UNCHANGED <<inputVars, harnessVars, histVars, pass, pageCount, stats,
                   columns, events, inTest, record, recordCount,
                   totalRecordCount>>

InitDdl ==
    /\ countFile = "present" /\ pageFiles = << >> /\ declaredCount = 0
    /\ testFile = "absent" /\ loadFromDir = FALSE
    /\ moduleName \in {"mod-agreements", "mod-users"}
    /\ dbType \in {"PostgreSQL", "Redshift"}
    /\ sRecs \in { s \in SeqsUpTo(DdlRecords, MaxDdlRecords) :
                     Pass1Schema(s).ok }
    /\ stats = Pass1Stats(NoStats, sRecs)
    /\ columns = Pass1Schema(sRecs).columns
    /\ sqlLog = << >>
    /\ pc = "create"
    /\ pass = 1 /\ page = 1 /\ pageCount = 1
    /\ parseLog = << >> /\ subParsed = << >> /\ failedAt = 0
    /\ arrayNo = 0 /\ sqlMark = 0 /\ statsMark = stats
    /\ HandlerInit
    /\ cIn = JNull /\ cOut = JNull /\ cOut2 = JNull /\ cAlt = JNull
    /\ cPhase = "off"
    /\ sAlt = NoAlt /\ tDoc = JNull
    /\ NoLoad

NextDdl ==
    \/ CreateLoadingTable
    \/ OpenRecords
    \/ WriteNext
    \/ CloseRecords
    \/ IndexLoadingTable

SpecDdl == InitDdl /\ [][NextDdl]_vars

-----------------------------------------------------------------------------
(* Properties: the orchestration of stageTable *)

HasKind(log, kinds) == \E i \in 1..Len(log) : log[i].kind \in kinds

IndexKinds == {"ALTER TABLE ADD PRIMARY KEY", "CREATE INDEX"}

\* C1: when the page-count file is missing, or declares zero pages,
\* stageTable executes no SQL statement at all and the table does not end
\* as staged (stageTable does not return true).
C1_NoSqlWithoutPages ==
    (countFile = "missing" \/ (countFile = "present" /\ declaredCount = 0))
        => (sqlLog = << >> /\ pc # "returned_true")

\* C2: once the outer parse of a page file or the sub-parse of a record has
\* failed, no later page is parsed, no index statement is executed and
\* stageTable does not return true.
C2_ParseFailureAborts ==
    failedAt > 0 =>
        /\ Len(parseLog) = failedAt
        /\ ~HasKind(sqlLog, IndexKinds)
        /\ pc # "returned_true"

\* The files pass 1 has to parse: the numbered pages in order, then the
\* test file when there is one to read.
Pass1Files ==
    [i \in 1..pageCount |-> [pass |-> 1, file |-> pageFiles[i]]]
        \o (IF loadFromDir /\ FileContent(testFile).exists
            THEN <<[pass |-> 1, file |-> testFile]>> ELSE << >>)

C3_Order ==
    /\ (pc = "parse" /\ pass = 2) =>
          /\ SelectSeq(parseLog, LAMBDA e : e.pass = 1) = Pass1Files
          /\ \A i, j \in 1..Len(parseLog) :
                 i < j => parseLog[i].pass <= parseLog[j].pass
          /\ columns = PushColumns(<< >>, SortedKeys(DOMAIN stats), stats).columns
          /\ HasKind(sqlLog, {"CREATE TABLE"})
    /\ \A i \in 1..Len(sqlLog) :
          sqlLog[i].kind = "INSERT" =>
              \E j \in 1..(i - 1) : sqlLog[j].kind = "CREATE TABLE"

\* C3: every page of pass 1 is parsed, the schema built and CREATE TABLE
\* executed before the first page of pass 2 is parsed; no INSERT is executed
\* before CREATE TABLE; table.columns does not change once pass 2 has begun.
C3_Pass1BeforePass2 ==
    []C3_Order /\ [][pass = 2 => columns' = columns]_vars

\* C3 witness: a page of pass 2 is being parsed after an INSERT of an
\* earlier page was executed.
C3_Witness ==
    /\ pc = "parse" /\ pass = 2
    /\ HasKind(sqlLog, {"INSERT"})
    /\ Len(columns) > 1

\* C4: if selectColumnType fails for a field after pass 1, stageTable
\* returns false, having executed no SQL statement and parsed no page in
\* pass 2.
C4_InferenceFailure ==
    /\ pc = "returned_false" =>
          /\ sqlLog = << >>
          /\ \A i \in 1..Len(parseLog) : parseLog[i].pass = 1
    /\ (pass = 2 \/ pc \in {"create", "returned_true"}) =>
          \A f \in DOMAIN stats : selectColumnType(f, stats[f]).ok

\* C4 witness: stageTable returned false because a field holds a number in
\* one record and a string in another.
C4_Witness ==
    /\ pc = "returned_false"
    /\ \E f \in DOMAIN stats : stats[f].number > 0 /\ stats[f].string > 0

-----------------------------------------------------------------------------
(* Properties: the insert buffer *)

\* The arrays that are values of members of the page's top-level object.
PageArrays(doc) ==
    IF doc.t # "obj" THEN << >>
    ELSE LET ms == SelectSeq(doc.v, LAMBDA m : m.value.t = "arr")
         IN  [i \in 1..Len(ms) |-> ms[i].value.v]

\* In pass 2 an array of a well-formed page has ended.
ArrayEnded ==
    /\ pc = "parse" /\ pass = 2
    /\ CurrentFile.ok
    /\ arrayNo > 0 /\ ~active
    /\ arrayNo <= Len(PageArrays(CurrentFile.doc))

\* Its elements, and the statements executed since it began.
ArrayRecords == PageArrays(CurrentFile.doc)[arrayNo]
ArrayStmts == SubSeq(sqlLog, sqlMark + 1, Len(sqlLog))

RECURSIVE Tuples(_)
Tuples(stmts) ==
    IF stmts = << >> THEN << >>
    ELSE Head(stmts).x.tuples \o Tuples(Tail(stmts))

RECURSIVE TupleChars(_, _)
TupleChars(ts, k) ==
    IF k = 0 THEN 0
    ELSE TupleChars(ts, k - 1) + ts[k].len - (IF ts[k].lead THEN 1 ELSE 0)

Cumulative(ts, k) == InsertHeaderLen + TupleChars(ts, k) + (k - 1)

\* The text of an executed INSERT without its last tuple.
WithoutLastTuple(s) == s.x.len - s.x.tuples[Len(s.x.tuples)].len

\* Neither its last tuple nor the ";\n" that ends the statement.
WithoutLastTupleAndEnd(s) == WithoutLastTuple(s) - 2

Inserts == SelectSeq(sqlLog, LAMBDA s : s.kind = "INSERT" /\ s.x.tuples # << >>)

\* A record closes in pass 2 while the buffer is over the threshold, and its
\* tuple gets written.
ClosesOverThreshold ==
    /\ Handling("EndObject") /\ level = 3 /\ pass = 2
    /\ insertBuffer.len > InsertThreshold
    /\ pc' = "parse"

\* The statement was executed and the tuple starts a new one.
FlushedBeforeTuple ==
    /\ sqlLog' = Append(sqlLog, InsertStmt(insertBuffer))
    /\ insertBuffer'.hdr
    /\ Len(insertBuffer'.tuples) = 1
    /\ ~insertBuffer'.tuples[1].lead
    /\ insertBuffer'.len = InsertHeaderLen + insertBuffer'.tuples[1].len
    /\ recordCount' = 1

\* C6 as stated: every executed INSERT is at most 16,500,000 characters
\* long without its last tuple, and an array whose tuples cross the
\* threshold, at whichever tuple, is loaded by more than one INSERT.
C6_Original ==
    /\ \A i \in 1..Len(Inserts) : WithoutLastTuple(Inserts[i]) <= InsertThreshold
    /\ ArrayEnded =>
          LET ts == Tuples(ArrayStmts)
          IN  (\E k \in 1..Len(ts) : Cumulative(ts, k) > InsertThreshold)
                  => Len(ArrayStmts) > 1

C6_Sizes ==
    /\ \A i \in 1..Len(Inserts) :
          WithoutLastTupleAndEnd(Inserts[i]) <= InsertThreshold
    /\ ArrayEnded =>
          LET ts == Tuples(ArrayStmts)
          IN  (\E k \in 1..(Len(ts) - 1) : Cumulative(ts, k) > InsertThreshold)
                  => Len(ArrayStmts) > 1

\* C6 (amended): when a record closes in pass 2 and the buffer is longer
\* than 16,500,000 characters, the statement is executed and a new one begun
\* before the tuple is appended; an array whose tuples cross the threshold
\* before the last tuple is loaded by more than one INSERT; every executed
\* INSERT is at most 16,500,000 characters long without its last tuple and
\* its two-character terminator.
C6_FlushOverThreshold ==
    []C6_Sizes /\ [][ClosesOverThreshold => FlushedBeforeTuple]_vars

\* C6 witness: the array is still open, a statement longer than the
\* threshold was executed for it and the next tuple began a new statement.
C6_Witness ==
    /\ pc = "parse" /\ pass = 2 /\ active
    /\ Len(ArrayStmts) = 1
    /\ ArrayStmts[1].x.len > InsertThreshold
    /\ Len(insertBuffer.tuples) = 1

\* C7: every INSERT statement executed holds at least one tuple, and an
\* array for which no tuple was written has no INSERT executed.
C7_NoEmptyInsert ==
    /\ \A i \in 1..Len(sqlLog) :
          sqlLog[i].kind = "INSERT" => Len(sqlLog[i].x.tuples) >= 1
    /\ (ArrayEnded /\ ArrayRecords = << >>) => ArrayStmts = << >>

-----------------------------------------------------------------------------
(* Properties: the records handed to the sub-parse *)

\* The text of a record as the handler is to rebuild it: every scalar and
\* every nested value followed by a comma, names as they are.
RECURSIVE ValueText(_)
RECURSIVE MembersText(_)
RECURSIVE ElementsText(_)
ValueText(x) ==
    CASE x.t = "obj" -> <<LBrace>> \o MembersText(x.v) \o <<RBrace, Comma>>
      [] x.t = "arr" -> <<LBracket>> \o ElementsText(x.v) \o <<RBracket, Comma>>
      [] x.t = "str" -> <<Tok("str", encodeJSON(x.v)), Comma>>
      [] x.t \in {"int", "float"} -> <<Tok("num", x), Comma>>
      [] x.t = "bool" -> <<Tok(IF x.v THEN "true" ELSE "false", 0), Comma>>
      [] OTHER -> <<Tok("null", 0), Comma>>
MembersText(ms) ==
    IF ms = << >> THEN << >>
    ELSE <<Tok("key", Head(ms).name)>> \o ValueText(Head(ms).value)
             \o MembersText(Tail(ms))
ElementsText(es) ==
    IF es = << >> THEN << >>
    ELSE ValueText(Head(es)) \o ElementsText(Tail(es))

RecordText(rec) == <<LBrace>> \o MembersText(rec.v) \o <<RBrace>>

RECURSIVE Concat(_)
Concat(ss) == IF ss = << >> THEN << >> ELSE Head(ss) \o Concat(Tail(ss))

RECURSIVE StatsFold(_, _)
StatsFold(st, parsed) ==
    IF parsed = << >> THEN st
    ELSE StatsFold(StatsAfter(st, Head(parsed).doc), Tail(parsed))

AllObjects(es) == \A i \in 1..Len(es) : es[i].t = "obj"

\* The parse of a well-formed page has come to its end.
PageEnd == pc = "parse" /\ events = << >> /\ CurrentFile.ok

\* Each record was handed to the sub-parse once, in order, as its own text;
\* pass 1 counted it, pass 2 wrote its tuple.
HandedOver(recs) ==
    /\ Len(subParsed) = Len(recs)
    /\ \A i \in 1..Len(recs) :
          /\ subParsed[i].text = RecordText(recs[i])
          /\ subParsed[i].ok => subParsed[i].doc = recs[i]
    /\ pass = 1 => stats = StatsFold(statsMark, subParsed)
    /\ pass = 2 => totalRecordCount = Len(recs)

WrappedPage(doc) ==
    /\ doc.t = "obj"
    /\ \A i \in 1..Len(doc.v) :
          /\ doc.v[i].value.t # "obj"
          /\ doc.v[i].value.t = "arr" => AllObjects(doc.v[i].value.v)

-----------------------------------------------------------------------------
(* Properties: canonical member order *)

\* In every object of the tree a member named "id" precedes every member of
\* another name, and the other names ascend byte-wise.
RECURSIVE Canonical(_)
Canonical(node) ==
    CASE node.t = "obj" ->
           /\ \A i, j \in 1..Len(node.v) :
                  i < j =>
                     /\ node.v[j].name = IdName => node.v[i].name = IdName
                     /\ (node.v[i].name # IdName /\ node.v[j].name # IdName)
                            => strcmp(node.v[i].name, node.v[j].name) <= 0
           /\ \A i \in 1..Len(node.v) : Canonical(node.v[i].value)
      [] node.t = "arr" -> \A i \in 1..Len(node.v) : Canonical(node.v[i])
      [] OTHER -> TRUE

\* C9: processJSONRecord returns, and after it, in every object of the
\* record (nested ones and those inside arrays included) the member named
\* "id" is first and the other members are in ascending byte-wise order of
\* name.
C9_CanonicalOrder ==
    /\ cPhase # "crashed"
    /\ cPhase \in {"once", "twice"} => Canonical(cOut)

\* C10: processJSONRecord applied to a record that is already canonical
\* leaves the member order of every object unchanged.
C10_Idempotent ==
    (cPhase = "twice" /\ Canonical(cOut)) => cOut2 = cOut

-----------------------------------------------------------------------------
(* Properties: one text for one record *)

\* The text rapidjson's Writer produces for a tree (doc.Accept(writer)):
\* members and elements in the order the tree holds them.
RECURSIVE WriterText(_)
WriterText(x) ==
    LET RECURSIVE items(_, _)
        items(xs, first) ==
            IF xs = << >> THEN << >>
            ELSE (IF first THEN << >> ELSE <<Comma>>)
                   \o (IF x.t = "obj"
                       THEN <<Tok("key", Head(xs).name)>>
                                \o WriterText(Head(xs).value)
                       ELSE WriterText(Head(xs)))
                   \o items(Tail(xs), FALSE)
    IN  CASE x.t = "obj" -> <<LBrace>> \o items(x.v, TRUE) \o <<RBrace>>
          [] x.t = "arr" -> <<LBracket>> \o items(x.v, TRUE) \o <<RBracket>>
          [] x.t = "str" -> <<Tok("str", x.v)>>
          [] x.t \in {"int", "float"} -> <<Tok("num", x)>>
          [] x.t = "bool" -> <<Tok(IF x.v THEN "true" ELSE "false", 0)>>
          [] OTHER -> <<Tok("null", 0)>>

\* C11: two records with the same members and values, listed in a different
\* member order at any nesting level, have the same serialized text after
\* processJSONRecord.
C11_SameText ==
    cPhase = "pair" => WriterText(cAlt) = WriterText(cOut)

-----------------------------------------------------------------------------
(* Properties: the statistics and the schema *)

\* C12: after any sequence of records counted in pass 1, for every field of
\* the statistics map integer + floating = number, uuid <= string,
\* dateTime <= string, and null + boolean + number + string is at most the
\* number of records counted so far.
C12_CountsBounded ==
    \A f \in DOMAIN stats :
        /\ stats[f].integer + stats[f].floating = stats[f].number
        /\ stats[f].uuid <= stats[f].string
        /\ stats[f].dateTime <= stats[f].string
        /\ stats[f].null + stats[f].boolean + stats[f].number + stats[f].string
               <= Len(sRecs)

\* C13: a second pass 1 over the same records, presented in any record order
\* and any member order, ends with the same Counts map, the same outcome of
\* the schema loop and the same ordered column list.
C13_OrderIndependent ==
    sAlt.phase \in {"create", "returned_false"} =>
        /\ sAlt.stats = stats
        /\ sAlt.phase = pc
        /\ sAlt.columns = columns

\* C13 witness: three different records were counted again in another order
\* and both runs built the same schema of several columns.
C13_Witness ==
    /\ sAlt.phase = "create" /\ pc = "create"
    /\ sAlt.moved
    /\ Len(sRecs) = 3
    /\ \A i, j \in 1..3 : i # j => sRecs[i] # sRecs[j]
    /\ Len(sAlt.columns) >= 3
    /\ sAlt.columns = columns

\* The names of the members of the records counted whose value satisfies
\* Shape.
FieldNames(recs, Shape(_)) ==
    UNION { { recs[i].v[j].name :
                j \in { k \in 1..Len(recs[i].v) : Shape(recs[i].v[k].value) } } :
            i \in 1..Len(recs) }

AnyValue(x) == TRUE
ScalarOrNull(x) == x.t \notin {"arr", "obj"}

\* columns holds exactly one ColumnSchema for each name of names, and none
\* for another name.
OneColumnPerField(names) ==
    /\ \A n \in names :
          Cardinality({ i \in 1..Len(columns) :
                          columns[i].sourceColumnName = n }) = 1
    /\ \A i \in 1..Len(columns) : columns[i].sourceColumnName \in names

\* C14 as stated: after a successful pass 1, columns holds exactly one
\* ColumnSchema for every top-level field name of any record, whatever the
\* type of its values, and no other column.
C14_Original ==
    pc = "create" => OneColumnPerField(FieldNames(sRecs, AnyValue))

\* C14 (amended): after a successful pass 1, columns holds exactly one
\* ColumnSchema for every top-level field name that has a scalar or null
\* value in at least one record, and no other column; a field whose values
\* are all arrays or objects gets no column.
C14_ColumnPerScalarField ==
    pc = "create" => OneColumnPerField(FieldNames(sRecs, ScalarOrNull))

\* C14 witness: a schema was built from records one of which has an object
\* and an array as values of top-level fields.
C14_Witness ==
    /\ pc = "create"
    /\ \E i \in 1..Len(sRecs) : sRecs[i] = SRec4
    /\ Len(columns) >= 2
    /\ FieldNames(sRecs, AnyValue) # FieldNames(sRecs, ScalarOrNull)

-----------------------------------------------------------------------------
(* Properties: the values of a tuple *)

\* writeTuple has returned: tDoc is the document it was handed and the last
\* tuple of the buffer the one it wrote.
Written == pc = "tuple" /\ tDoc # JNull /\ insertBuffer.tuples # << >>

LastTuple == insertBuffer.tuples[Len(insertBuffer.tuples)]

TupleColumns == NonIdColumns(columns)

\* The record has the source field of column i, and its value is not null.
HasValue(i) ==
    LET k == MemberIndex(tDoc, TupleColumns[i].sourceColumnName)
    IN  k # 0 /\ tDoc.v[k].value.t # "null"

ValueOf(i) ==
    tDoc.v[MemberIndex(tDoc, TupleColumns[i].sourceColumnName)].value

\* C15: for every column other than id, whatever its type, the value
\* written is the literal NULL when the record lacks the column's source
\* field or the field's value is JSON null.
C15_NullForAbsentOrNull ==
    Written =>
        \A i \in 1..Len(TupleColumns) :
            ~HasValue(i) => LastTuple.vals[i] = NullLit

\* C15 witness: two tuples were written for a table with a numeric column,
\* the first with the number of its record, the second with NULL for a
\* record where the field is null.
C15_Witness ==
    /\ Written
    /\ Len(insertBuffer.tuples) = 2
    /\ Len(TupleColumns) = 1
    /\ TupleColumns[1].columnType = "numeric"
    /\ insertBuffer.tuples[1].vals[1].k = "num"
    /\ MemberIndex(tDoc, TupleColumns[1].sourceColumnName) # 0
    /\ ~HasValue(1)
    /\ LastTuple.vals[1] = NullLit

\* The absolute value of a number is above 10,000,000,000.
MagnitudeExceeds(x) == x.t = "int" /\ x.k = 1 /\ Abs(x.v) > 10

\* C16: for a numeric column the value written is 0 exactly when the
\* magnitude of the record's value exceeds 10,000,000,000 (above 10^10 or
\* below -10^10); otherwise, 10^10 itself included, it is the decimal text of
\* the value.
C16_MagnitudeFallback ==
    Written =>
        \A i \in 1..Len(TupleColumns) :
            (TupleColumns[i].columnType = "numeric" /\ HasValue(i)) =>
                LastTuple.vals[i] =
                    IF MagnitudeExceeds(ValueOf(i)) THEN Lit("num", JInt(0), 1)
                    ELSE Lit("num", ValueOf(i), DoubleTextLen(ValueOf(i)))

\* C17: for a big-integer column the value written is the decimal text of
\* the record's integer, for every integer of the 64-bit range, and writing
\* it does not fail.
C17_BigintText ==
    /\ pc # "crashed"
    /\ Written =>
          \A i \in 1..Len(TupleColumns) :
              (TupleColumns[i].columnType = "bigint" /\ HasValue(i)) =>
                  LastTuple.vals[i] =
                      Lit("int", ValueOf(i), IntTextLen(ValueOf(i)))

\* The literal a string gets under the limit of 65,535 characters.
LimitedLit(str) ==
    IF encode_string_const_len(str) >= MaxStringLen THEN NullLit
    ELSE Lit("str", CStr(str), encode_string_const_len(str))

\* The value the last tuple holds for column i of table.columns.
WrittenFor(i) ==
    IF columns[i].columnName = IdName THEN LastTuple.id
    ELSE LastTuple.vals[Len(NonIdColumns(SubSeq(columns, 1, i)))]

PrettyLen == 2 + DataLen(tDoc, 0, TRUE)
CompactLen == 2 + DataLen(tDoc, 0, FALSE)

\* C19: the raw document value is the pretty-printed text when its encoded
\* length does not exceed 65,535, else the compact text when that does not
\* exceed 65,535, else NULL; in all three cases the id, the typed values and
\* the tenant marker are written as for any record and the tuple is counted.
C19_DataColumn ==
    Written =>
        /\ LastTuple.data =
               IF PrettyLen <= MaxStringLen THEN Lit("pretty", tDoc, PrettyLen)
               ELSE IF CompactLen <= MaxStringLen
               THEN Lit("compact", tDoc, CompactLen)
               ELSE NullLit
        /\ LastTuple.id = IdLit(tDoc)
        /\ LastTuple.vals =
               [i \in 1..Len(TupleColumns) |-> ColumnLit(TupleColumns[i], tDoc)]
        /\ LastTuple.len =
               (IF LastTuple.lead THEN 1 ELSE 0) + 1 + LastTuple.id.len + 1
                   + SumLens(LastTuple.vals) + LastTuple.data.len + 3
        /\ recordCount = Len(insertBuffer.tuples)
        /\ totalRecordCount = Len(insertBuffer.tuples)

\* C19 witness: the first tuple holds the compact text of its record, the
\* second NULL in place of the document, and both hold their id and their
\* typed value.
C19_Witness ==
    /\ Written
    /\ Len(insertBuffer.tuples) = 2
    /\ insertBuffer.tuples[1].data.k = "compact"
    /\ insertBuffer.tuples[1].vals[1].k = "str"
    /\ PrettyLen > MaxStringLen /\ CompactLen > MaxStringLen
    /\ LastTuple.data = NullLit
    /\ LastTuple.id.k = "str"
    /\ LastTuple.vals[1].k = "str"
    /\ totalRecordCount = 2

-----------------------------------------------------------------------------
(* Properties: the index step *)

\* C20: no INSERT is executed after the first index statement, and no index
\* statement is executed when the parse of a page of pass 2 has failed.
C20_IndexAfterLoad ==
    /\ \A i, j \in 1..Len(sqlLog) :
          (i < j /\ sqlLog[i].kind \in IndexKinds) => sqlLog[j].kind # "INSERT"
    /\ HasKind(sqlLog, IndexKinds) =>
          \A i \in 1..Len(parseLog) :
              parseLog[i].pass = 2 => FileContent(parseLog[i].file).ok

-----------------------------------------------------------------------------
(* Properties: the statements of the two DDL steps *)

\* The statements of the log whose kind is in kinds, in order.
OfKind(log, kinds) == SelectSeq(log, LAMBDA st : st.kind \in kinds)

\* The positions of the columns of the schema that get a secondary index.
IndexedColumns ==
    { i \in 1..Len(columns) : columns[i].columnName \notin {IdName, DataName} }

\* C21: indexLoadingTable always executes exactly one ADD PRIMARY KEY (id)
\* statement; with an empty column vector that is the only statement;
\* otherwise it also executes one CREATE INDEX for each column that is
\* neither id nor data when the dialect is PostgreSQL, and no CREATE INDEX
\* for another dialect.
C21_PrimaryKeyAndIndexes ==
    pc = "returned_true" =>
        LET keys == OfKind(sqlLog, {"ALTER TABLE ADD PRIMARY KEY"})
            idx == OfKind(sqlLog, {"CREATE INDEX"})
        IN  /\ Len(keys) = 1
            /\ keys[1].x = IdName
            /\ columns = << >> => idx = << >>
            /\ IF dbType = "PostgreSQL"
               THEN /\ Len(idx) = Cardinality(IndexedColumns)
                    /\ \A i \in IndexedColumns :
                          \E j \in 1..Len(idx) : idx[j].x = columns[i].columnName
               ELSE idx = << >>

\* C22: createLoadingTable executes, in this order, CREATE TABLE listing id
\* first (NOT NULL), then every column of table.columns other than id in
\* vector order, then data, then tenant_id; then COMMENT ON TABLE unless the
\* module is mod-agreements; then exactly two GRANT SELECT statements, to
\* ldpconfig_user and then to ldp_user.
C22_CreateOrder ==
    pass = 2 =>
        LET nic == NonIdColumns(columns)
            n == Len(nic)
            tc == sqlLog[1].x.columns
            k == IF moduleName = "mod-agreements" THEN 1 ELSE 2
        IN  /\ Len(sqlLog) >= k + 2
            /\ sqlLog[1].kind = "CREATE TABLE"
            /\ Len(tc) = n + 3
            /\ tc[1].name = IdName /\ tc[1].notNull
            /\ \A i \in 1..n :
                  /\ tc[i + 1].name = nic[i].columnName
                  /\ tc[i + 1].type = nic[i].columnType
            /\ tc[n + 2].name = DataName
            /\ tc[n + 3].name = TenantIdName
            /\ moduleName # "mod-agreements" =>
                  sqlLog[2] = Stmt("COMMENT", moduleName)
            /\ sqlLog[k + 1] = Stmt("GRANT", "ldpconfig_user")
            /\ sqlLog[k + 2] = Stmt("GRANT", "ldp_user")
            /\ Len(OfKind(sqlLog, {"CREATE TABLE", "COMMENT", "GRANT"})) = k + 2

\* C22 witness: the table of a module other than mod-agreements was created
\* from a schema of three columns with id in the middle.
C22_Witness ==
    /\ pass = 2
    /\ moduleName = "mod-users"
    /\ Len(columns) = 3
    /\ columns[2].columnName = IdName
    /\ Len(sqlLog) >= 4
    /\ sqlLog[1].kind = "CREATE TABLE"
    /\ Len(sqlLog[1].x.columns) = 5
    /\ sqlLog[2].kind = "COMMENT"

\* The tuples writeTuple has written so far, executed or still in the
\* buffer, in order.
WrittenTuples ==
    Tuples(OfKind(sqlLog, {"INSERT"}))
        \o (IF insertBuffer.hdr THEN insertBuffer.tuples ELSE << >>)

\* C28: every tuple written by writeTuple has exactly as many values, in the
\* same order, as the table created by createLoadingTable has columns: id,
\* then one value for each column of table.columns other than id in vector
\* order, then data, then the tenant marker.
C28_TupleMatchesTable ==
    pass = 2 =>
        LET tc == sqlLog[1].x.columns
            nic == NonIdColumns(columns)
            ts == WrittenTuples
        IN  \A k \in 1..Len(ts) :
                /\ 1 + Len(ts[k].vals) + 2 = Len(tc)
                /\ tc[1].name = IdName
                /\ ts[k].id = IdLit(sRecs[k])
                /\ \A i \in 1..Len(ts[k].vals) :
                      /\ tc[i + 1].name = nic[i].columnName
                      /\ ts[k].vals[i] = ColumnLit(nic[i], sRecs[k])
                /\ tc[Len(tc) - 1].name = DataName
                /\ \E d \in processJSONRecord(sRecs[k]) : ts[k].data = DataLit(d)
                /\ tc[Len(tc)].name = TenantIdName
                /\ ts[k].len = (IF ts[k].lead THEN 1 ELSE 0) + 1 + ts[k].id.len
                                  + 1 + SumLens(ts[k].vals) + ts[k].data.len + 3

\* C28 witness: two tuples of four values were executed for a table of five
\* columns whose schema has id between two other columns.
C28_Witness ==
    /\ pc = "returned_true"
    /\ Len(columns) = 3
    /\ columns[2].columnName = IdName
    /\ Len(sqlLog[1].x.columns) = 5
    /\ Len(WrittenTuples) = 2
    /\ \A k \in 1..2 :
          /\ Len(WrittenTuples[k].vals) = 2
          /\ WrittenTuples[k].id.k = "str"
    /\ WrittenTuples[2].vals[1].k = "bool"
    /\ WrittenTuples[2].vals[2].k = "int"

-----------------------------------------------------------------------------
(* Properties: the handler *)

\* A Reader callback is about to be handled.
HandlingEvent == pc = "parse" /\ events # << >>

\* C23: the two passes are disjoint in effect: handling any parser event in
\* pass 1 executes no SQL and leaves the insert buffer empty, and handling
\* any parser event in pass 2 leaves the statistics map unchanged.
C23_PassesDisjoint ==
    [][HandlingEvent =>
          /\ pass = 1 => /\ sqlLog' = sqlLog
                         /\ insertBuffer = EmptyBuffer
                         /\ insertBuffer' = EmptyBuffer
          /\ pass = 2 => stats' = stats]_vars

\* C23 witness: pass 2 has written the tuples of two records whose fields
\* pass 1 counted; the first statement of the log is the CREATE TABLE that
\* follows pass 1, and the statistics are those pass 2 began with.
C23_Witness ==
    /\ pass = 2
    /\ HandlingEvent
    /\ Len(insertBuffer.tuples) = 2
    /\ DOMAIN stats # {}
    /\ stats = statsMark
    /\ sqlLog[1].kind = "CREATE TABLE"

-----------------------------------------------------------------------------
(* Properties: the files of the two passes *)

\* The files handed to stagePage in pass p so far, in order.
PassFiles(p) ==
    LET es == SelectSeq(parseLog, LAMBDA e : e.pass = p)
    IN  [i \in 1..Len(es) |-> es[i].file]

\* Page 0 to page pageCount - 1 in ascending order, then the test file when
\* there is one to read.
FilesInOrder == [i \in 1..Len(Pass1Files) |-> Pass1Files[i].file]

IsPrefix(a, b) == Len(a) <= Len(b) /\ a = SubSeq(b, 1, Len(a))

\* C24: within each pass, stageTable parses the numbered page files
\* 0 .. pageCount-1 in strictly ascending order, each exactly once, followed
\* by the optional test file; pass 2 parses exactly the same sequence of
\* files as pass 1.
C24_SameFilesInOrder ==
    pc # "start" =>
        /\ \A p \in {1, 2} : IsPrefix(PassFiles(p), FilesInOrder)
        /\ pass = 2 => PassFiles(1) = FilesInOrder
        /\ pc = "returned_true" =>
              /\ PassFiles(2) = FilesInOrder
              /\ PassFiles(2) = PassFiles(1)

\* C24 witness: stageTable has returned after parsing two different pages
\* and the test file in each pass.
C24_Witness ==
    /\ pc = "returned_true"
    /\ pageCount = 2
    /\ pageFiles[1] # pageFiles[2]
    /\ PassFiles(1) = <<pageFiles[1], pageFiles[2], testFile>>
    /\ PassFiles(2) = PassFiles(1)

\* The nesting depth of a text after its first i tokens.
RECURSIVE DepthAfter(_, _)
DepthAfter(text, i) ==
    IF i = 0 THEN 0
    ELSE DepthAfter(text, i - 1)
             + (IF text[i].k \in {"{", "["} THEN 1
                ELSE IF text[i].k \in {"}", "]"} THEN -1 ELSE 0)

\* The text is one object from its opening brace to the matching close,
\* with nothing before or after it.
OneObject(text) ==
    /\ text # << >>
    /\ text[1] = LBrace
    /\ DepthAfter(text, Len(text)) = 0
    /\ \A i \in 1..(Len(text) - 1) : DepthAfter(text, i) > 0

\* This step processes a record: a text is sub-parsed, a statistic counted,
\* a tuple written, or the processing stops the program.
ProcessesRecord ==
    \/ subParsed' # subParsed
    \/ stats' # stats
    \/ totalRecordCount' # totalRecordCount
    \/ pc' = "crashed"

\* C25: record processing (sub-parse, statistics, tuple writing) is
\* triggered only by the close of an object that is a direct element of the
\* enclosing record array, that is only while active is true; an object
\* that closes at the same depth outside such an array never triggers it;
\* and the text handed to the sub-parse holds no token seen outside the
\* current record.
C25_OnlyArrayElements ==
    [][(HandlingEvent /\ ProcessesRecord) =>
          /\ Head(events).e = "EndObject"
          /\ level = 3
          /\ active
          /\ subParsed' # subParsed =>
                OneObject(subParsed'[Len(subParsed')].text)]_vars

\* C26: reconstruction round-trips: for every record object of the page
\* array, the tree obtained by sub-parsing the reconstructed text has the
\* same member names, nesting, and scalar values and types as the original
\* element, for keys and string values over all bytes, the double quote,
\* the backslash, control characters and bytes >= 0x80 included.
C26_RoundTrip ==
    (pc = "parse" /\ CurrentFile.ok /\ WrappedPage(CurrentFile.doc)) =>
        LET recs == Concat(PageArrays(CurrentFile.doc))
        IN  \A i \in 1..Len(subParsed) :
                /\ i <= Len(recs)
                /\ subParsed[i].ok
                /\ subParsed[i].doc = recs[i]

-----------------------------------------------------------------------------
(* Properties: the transaction of one table in runLoad *)

\* The positions of the commits in the log of one connection.
Commits(L) == { i \in 1..Len(L) : L[i] = ConnEvent("commit", "done") }

Threw(L) == \E i \in 1..Len(L) : L[i].out = "throw"

\* The iteration of table t has come to its end.
Finished(t) == t < tableNo \/ loadStep \in {"table", "done", "failed"}

\* The five calls of the loop body, in order.
BodyOps == <<"connect", "stage", "merge", "drop", "place", "grant">>

C27_OneCommit ==
    /\ \A t \in 1..Len(connLog) :
          LET L == connLog[t]
          IN  /\ Cardinality(Commits(L)) <= 1
              /\ \A i \in Commits(L) :
                    /\ i = Len(BodyOps) + 1
                    /\ \A j \in 1..Len(BodyOps) :
                          L[j].op = BodyOps[j] /\ L[j].out # "throw"
              /\ Threw(L) =>
                    /\ Commits(L) = {}
                    /\ L[Len(L)] = ConnEvent("rollback", "done")
              /\ (Finished(t) /\ L # << >> /\ ~Threw(L)) =>
                    Cardinality(Commits(L)) = 1
    /\ \A i \in 1..Len(sqlLog) : sqlLog[i].kind \notin {"COMMIT", "ROLLBACK"}

C30_FailureStopsTable ==
    \A t \in 1..Len(connLog) :
        LET L == connLog[t]
        IN  (\E i \in 1..Len(L) : L[i] = ConnEvent("stage", "false")) =>
                /\ \A i \in 1..Len(L) : L[i].op \notin {"merge", "drop", "place"}
                /\ Commits(L) = {}

-----------------------------------------------------------------------------
(* Properties: the record counter and the insert buffer *)

\* C29: in every reachable handler state of pass 2, for any sequence of
\* parser events (a page with more than one array at the level of the
\* record array included), recordCount equals the number of tuples in
\* insertBuffer; hence no executed INSERT statement has an empty tuple list
\* or a tuple list that starts with a comma.
C29_CountMatchesBuffer ==
    /\ (pc = "parse" /\ pass = 2) => recordCount = Len(insertBuffer.tuples)
    /\ \A i \in 1..Len(sqlLog) :
          sqlLog[i].kind = "INSERT" =>
              /\ sqlLog[i].x.tuples # << >>
              /\ ~sqlLog[i].x.tuples[1].lead

-----------------------------------------------------------------------------
(* Properties: the transaction of runPreloadTests *)

\* The positions, in the log of one connection, of the statements that a
\* later commit made permanent: executed, and followed by a commit with no
\* rollback in between.
Committed(L) ==
    { i \in 1..Len(L) :
        /\ L[i].out = "done"
        /\ L[i].op \notin {"connect", "commit", "rollback"}
        /\ \E j \in (i + 1)..Len(L) :
              /\ L[j] = ConnEvent("commit", "done")
              /\ \A k \in (i + 1)..(j - 1) : L[k].op # "rollback" }

\* runPreloadTests has returned.
PreloadReturned ==
    /\ loadStep \notin {"off", "preload", "pregrant", "prerollback"}
    /\ ~Threw(preLog)

\* C31: rollbackTxn discards the open transaction instead of committing it:
\* after runPreloadTests returns, the GRANT it executed to validate the user
\* has not been committed.
C31_PreloadGrantDiscarded ==
    PreloadReturned =>
        /\ Committed(preLog) = {}
        /\ Commits(preLog) = {}

-----------------------------------------------------------------------------
(* Properties: the comparator handed to std::sort *)

\* The members of the record: the range of the first std::sort call of
\* processJSONRecord.
SortedMembers == { cIn.v[i] : i \in 1..Len(cIn.v) }

\* processJSONRecord was called on the record, and so std::sort with the
\* comparator on its members.
SortCalled == cPhase \in {"once", "twice", "crashed"} /\ cIn.t = "obj"

\* C32: NameComparator is a strict weak ordering on object members, as
\* std::sort requires: comp(x, x) is false for every member x (a member
\* named "id" included), comp(x, y) and comp(y, x) are never both true, and
\* comp is transitive.
C32_StrictWeakOrdering ==
    SortCalled =>
        \A x, y, z \in SortedMembers :
            /\ ~NameComparator(x, x)
            /\ ~(NameComparator(x, y) /\ NameComparator(y, x))
            /\ (NameComparator(x, y) /\ NameComparator(y, z))
                   => NameComparator(x, z)

====
